---- MODULE Spec2Model ----
(***************************************************************************)
(* Order-management backend (users, products, orders over one SQLite       *)
(* connection).  The state is the content of the three tables as seen on   *)
(* the single shared connection, the connection's transaction state, and   *)
(* the position and locals of every request in flight.  Every `await` of   *)
(* a model method is one step: requests interleave between their           *)
(* statements, exactly as the promises of src/db.js let them.              *)
(***************************************************************************)
EXTENDS Integers, Sequences, FiniteSets, TLC

VARIABLES
    users,      \* users table: id -> [status, email] (ids are 1..Len)
    products,   \* products table: id -> [price, stockQuantity, status]
    orders,     \* orders table: id -> row
    txnOpen,    \* the connection has a transaction open (BEGIN seen, no COMMIT/ROLLBACK yet)
    snap,       \* tables as they were at BEGIN: what ROLLBACK restores
    proc,       \* request slots: position, arguments and locals of each request
    nreq,       \* number of requests started so far
    mgr         \* the DatabaseManager: its fields, where connect() stands, what it did

vars == <<users, products, orders, txnOpen, snap, proc, nreq, mgr>>

(***************************************************************************)
(* Bounds of the model.                                                    *)
(***************************************************************************)
MaxReq == 2         \* requests served one after the other in one behaviour
MaxConcReq == 2     \* requests started in one behaviour when they may overlap
MaxStock == 2       \* largest initial stock / stock value given to product create and update
MaxQty == 2         \* largest quantity of an order or a stock adjustment
NumProcs == 2       \* requests in flight at once
MaxProducts == 2    \* product rows
MaxCents == 12      \* largest price, in hundredths, of the price computations
MaxPriceQty == 3    \* largest quantity of the price computations
MaxConnectCalls == 2  \* calls of DatabaseManager.connect in one behaviour
MaxCloses == 2      \* calls of DatabaseManager.close in one behaviour

Procs == 1..NumProcs

NULL == "null"
NoRow == [none |-> TRUE]

(***************************************************************************)
(* Schema: column domains and CHECK constraints (src/db.js initDatabase).  *)
(***************************************************************************)
UserStatuses == {"active", "inactive", "suspended"}
ProductStatuses == {"available", "out_of_stock", "discontinued"}
OrderStatuses == {"pending", "confirmed", "shipped", "delivered", "cancelled"}

\* products: CHECK(stockQuantity >= 0), CHECK(status IN (...)), CHECK(price >= 0.01).
\* Prices are counted in hundredths, so 0.01 is 1.
ProductCheckOkNoStock(row) ==
    /\ row.status \in ProductStatuses
    /\ row.price >= 1

ProductCheckOk(row) ==
    /\ row.stockQuantity >= 0
    /\ row.status \in ProductStatuses
    /\ row.price >= 1

\* orders: CHECK(quantity > 0), CHECK(status IN (...)), FOREIGN KEY user_id, product_id
OrderCheckOk(row, us, ps) ==
    /\ row.quantity > 0
    /\ row.status \in OrderStatuses
    /\ row.user_id \in 1..Len(us)
    /\ row.product_id \in 1..Len(ps)

(***************************************************************************)
(* Prices.  A price is a decimal amount with two places, named here by its  *)
(* count of hundredths c; JavaScript and the REAL column hold it as the     *)
(* IEEE-754 double nearest to c/100.  A double is [e, hi, lo]: the value    *)
(* 1.b1..b52 * 2^e, hi the leading 26 bits of the 53-bit significand and lo *)
(* the trailing 27.  create computes total_price = unit_price * quantity in *)
(* double arithmetic (round to nearest, ties to even).                      *)
(***************************************************************************)
HiBits == 26
LoBits == 27

\* e with 2^e <= n/d < 2^(e+1)
RECURSIVE NormExp(_, _)
NormExp(n, d) ==
    IF n >= 2 * d THEN NormExp(n, 2 * d) + 1
    ELSE IF n < d THEN NormExp(2 * n, d) - 1
    ELSE 0

RECURSIVE Pow2(_)
Pow2(k) == IF k = 0 THEN 1 ELSE 2 * Pow2(k - 1)

\* The next k bits of r/d (0 <= r < 2d) as a number, and what is left:
\* <<bits, rest>>, acc the bits so far.
RECURSIVE DivBits(_, _, _, _)
DivBits(r, d, k, acc) ==
    IF k = 0 THEN <<acc, r>>
    ELSE IF r >= d THEN DivBits(2 * (r - d), d, k - 1, 2 * acc + 1)
    ELSE DivBits(2 * r, d, k - 1, 2 * acc)

\* The significand hi.lo of exponent e, one unit in the last place up when
\* roundUp; a carry out of the significand renormalises.
PackDouble(e, hi, lo, roundUp) ==
    LET lo1 == IF roundUp THEN lo + 1 ELSE lo
        hi1 == IF lo1 = Pow2(LoBits) THEN hi + 1 ELSE hi
        lo2 == IF lo1 = Pow2(LoBits) THEN 0 ELSE lo1
    IN  IF hi1 = Pow2(HiBits)
        THEN [e |-> e + 1, hi |-> Pow2(HiBits - 1), lo |-> 0]
        ELSE [e |-> e, hi |-> hi1, lo |-> lo2]

\* The double nearest to n/d (n, d > 0), ties to even: how a decimal amount
\* becomes a number.
DivToDouble(n, d) ==
    LET e == NormExp(n, d)
        nn == IF e < 0 THEN n * Pow2(-e) ELSE n
        dd == IF e > 0 THEN d * Pow2(e) ELSE d
        top == DivBits(nn, dd, HiBits, 0)
        low == DivBits(top[2], dd, LoBits, 0)
        rest == low[2]
        roundUp == rest > dd \/ (rest = dd /\ low[1] % 2 = 1)
    IN  PackDouble(e, top[1], low[1], roundUp)

\* Bits of v above the first HiBits.
RECURSIVE ExtraBits(_)
ExtraBits(v) == IF v < Pow2(HiBits) THEN 0 ELSE 1 + ExtraBits(v \div 2)

\* x * k for a double x and an integer k >= 1: the exact product of the
\* significand by k, rounded to 53 bits, ties to even.
MulDouble(x, k) ==
    LET plo == x.lo * k
        lo1 == plo % Pow2(LoBits)
        hi1 == x.hi * k + plo \div Pow2(LoBits)
        extra == ExtraBits(hi1)
        dropped == lo1 % Pow2(extra)
        lo2 == lo1 \div Pow2(extra) + (hi1 % Pow2(extra)) * Pow2(LoBits - extra)
        hi2 == hi1 \div Pow2(extra)
        half == IF extra = 0 THEN 1 ELSE Pow2(extra - 1)
        roundUp == extra > 0 /\ (dropped > half \/ (dropped = half /\ lo2 % 2 = 1))
    IN  PackDouble(x.e + extra, hi2, lo2, roundUp)

\* create, lines 46-48: unit_price = parseFloat(product.price) is the product's
\* price itself; total_price = unit_price * numericQuantity in doubles.
TotalPrice(unit_price, numericQuantity) ==
    MulDouble(DivToDouble(unit_price, 100), numericQuantity)

(***************************************************************************)
(* Strings: String.prototype.toUpperCase, toLowerCase and trim, character  *)
(* by character.                                                           *)
(***************************************************************************)
LowerLetters == "abcdefghijklmnopqrstuvwxyz"
UpperLetters == "ABCDEFGHIJKLMNOPQRSTUVWXYZ"

CharAt(str, i) == SubSeq(str, i, i)

\* c as found in alphabet from, replaced by the letter of the same rank in to
MapChar(c, from, to) ==
    IF \E i \in 1..Len(from) : CharAt(from, i) = c
    THEN CharAt(to, CHOOSE i \in 1..Len(from) : CharAt(from, i) = c)
    ELSE c

RECURSIVE toUpperCase(_)
toUpperCase(str) ==
    IF Len(str) = 0 THEN ""
    ELSE MapChar(CharAt(str, 1), LowerLetters, UpperLetters)
            \o toUpperCase(SubSeq(str, 2, Len(str)))

RECURSIVE toLowerCase(_)
toLowerCase(str) ==
    IF Len(str) = 0 THEN ""
    ELSE MapChar(CharAt(str, 1), UpperLetters, LowerLetters)
            \o toLowerCase(SubSeq(str, 2, Len(str)))

\* parseInt of the text of a value: blanks, an optional sign, then digits up
\* to the first character that is none; NaN when there is no digit.
Digits == "0123456789"

IsDigit(c) == \E i \in 1..Len(Digits) : CharAt(Digits, i) = c

DigitValue(c) == (CHOOSE i \in 1..Len(Digits) : CharAt(Digits, i) = c) - 1

RECURSIVE LeadingDigits(_, _, _)
LeadingDigits(str, acc, seen) ==
    IF Len(str) = 0 \/ ~IsDigit(CharAt(str, 1)) THEN [nan |-> ~seen, value |-> acc]
    ELSE LeadingDigits(SubSeq(str, 2, Len(str)), 10 * acc + DigitValue(CharAt(str, 1)), TRUE)

RECURSIVE parseInt(_)
parseInt(str) ==
    IF Len(str) = 0 THEN [nan |-> TRUE, value |-> 0]
    ELSE IF CharAt(str, 1) = " " THEN parseInt(SubSeq(str, 2, Len(str)))
    ELSE IF CharAt(str, 1) = "-"
    THEN LET r == LeadingDigits(SubSeq(str, 2, Len(str)), 0, FALSE)
         IN  [nan |-> r.nan, value |-> 0 - r.value]
    ELSE IF CharAt(str, 1) = "+" THEN LeadingDigits(SubSeq(str, 2, Len(str)), 0, FALSE)
    ELSE LeadingDigits(str, 0, FALSE)

RECURSIVE trim(_)
trim(str) ==
    IF Len(str) = 0 THEN ""
    ELSE IF CharAt(str, 1) = " " THEN trim(SubSeq(str, 2, Len(str)))
    ELSE IF CharAt(str, Len(str)) = " " THEN trim(SubSeq(str, 1, Len(str) - 1))
    ELSE str

(***************************************************************************)
(* SQL statements as functions of the tables.  Each returns                *)
(* [ok, products, orders, changes, id]; a statement that fails changes     *)
(* nothing (SQLite backs a failed statement out, its triggers included).   *)
(***************************************************************************)
StmtFail(ps, os) == [ok |-> FALSE, products |-> ps, orders |-> os, changes |-> 0, id |-> 0]
StmtOk(ps, os, n, i) == [ok |-> TRUE, products |-> ps, orders |-> os, changes |-> n, id |-> i]

\* Trigger update_stock_on_order: AFTER INSERT ON orders.
TriggerStatus(old, q) ==
    IF old.stockQuantity - q <= 0 THEN "out_of_stock" ELSE old.status

TriggerNoDecrement(ps, pid, q) == ps

update_stock_on_order(ps, pid, q) ==
    [ps EXCEPT ![pid] = [@ EXCEPT !.stockQuantity = @ - q,
                                  !.status = TriggerStatus(ps[pid], q)]]

\* INSERT INTO orders (user_id, product_id, quantity, unit_price, total_price, notes)
\* status takes its DEFAULT 'pending'; the trigger runs inside the statement.
InsertOrderUnchecked(us, ps, os, uid, pid, q, unit, total, notes, rid) ==
    LET row == [user_id |-> uid, product_id |-> pid, quantity |-> q,
                unit_price |-> unit, total_price |-> total,
                status |-> "pending", notes |-> notes, rid |-> rid]
    IN  IF ~OrderCheckOk(row, us, ps) THEN StmtFail(ps, os)
        ELSE StmtOk(update_stock_on_order(ps, pid, q), Append(os, row), 1, Len(os) + 1)

InsertOrder(us, ps, os, uid, pid, q, unit, total, notes, rid) ==
    LET row == [user_id |-> uid, product_id |-> pid, quantity |-> q,
                unit_price |-> unit, total_price |-> total,
                status |-> "pending", notes |-> notes, rid |-> rid]
    IN  IF ~OrderCheckOk(row, us, ps) THEN StmtFail(ps, os)
        ELSE LET ps2 == update_stock_on_order(ps, pid, q)
             IN  IF ~ProductCheckOk(ps2[pid]) THEN StmtFail(ps, os)
                 ELSE StmtOk(ps2, Append(os, row), 1, Len(os) + 1)

\* UPDATE orders SET status = ?, notes = ? WHERE id = ?
UpdateOrderStatusReprices(ps, os, id, st, notes) ==
    IF id \notin 1..Len(os) THEN StmtOk(ps, os, 0, 0)
    ELSE LET row == [os[id] EXCEPT !.status = st, !.notes = notes,
                                   !.unit_price = ps[os[id].product_id].price]
         IN  IF row.status \notin OrderStatuses THEN StmtFail(ps, os)
             ELSE StmtOk(ps, [os EXCEPT ![id] = row], 1, 0)

UpdateOrderStatusKeepsNotes(ps, os, id, st, notes) ==
    IF id \notin 1..Len(os) THEN StmtOk(ps, os, 0, 0)
    ELSE LET row == [os[id] EXCEPT !.status = st,
                                   !.notes = IF notes = NULL THEN os[id].notes ELSE notes]
         IN  IF row.status \notin OrderStatuses THEN StmtFail(ps, os)
             ELSE StmtOk(ps, [os EXCEPT ![id] = row], 1, 0)

UpdateOrderStatus(ps, os, id, st, notes) ==
    IF id \notin 1..Len(os) THEN StmtOk(ps, os, 0, 0)
    ELSE LET row == [os[id] EXCEPT !.status = st, !.notes = notes]
         IN  IF row.status \notin OrderStatuses THEN StmtFail(ps, os)
             ELSE StmtOk(ps, [os EXCEPT ![id] = row], 1, 0)

\* cancel's UPDATE products SET stockQuantity = stockQuantity + ?, status = CASE ... END
RestoreStatusAlwaysAvailable(old, q) == "available"

RestoreStatusKeeps(old, q) == old.status

RestoreStatus(old, q) ==
    IF old.status = "out_of_stock" /\ old.stockQuantity + q > 0
    THEN "available" ELSE old.status

RestoreStock(ps, os, pid, q) ==
    IF pid \notin 1..Len(ps) THEN StmtOk(ps, os, 0, 0)
    ELSE LET row == [ps[pid] EXCEPT !.stockQuantity = @ + q,
                                    !.status = RestoreStatus(ps[pid], q)]
         IN  IF ~ProductCheckOk(row) THEN StmtFail(ps, os)
             ELSE StmtOk([ps EXCEPT ![pid] = row], os, 1, 0)

(***************************************************************************)
(* The connection's transaction state (src/db.js beginTransaction,         *)
(* commitTransaction, rollbackTransaction: BEGIN / COMMIT / ROLLBACK run   *)
(* on the one connection every request shares).                            *)
(***************************************************************************)
NoSnap == [products |-> <<>>, orders |-> <<>>]

\* BEGIN TRANSACTION fails when the connection already has one open.
BeginFails == txnOpen

BeginOk ==
    /\ txnOpen' = TRUE
    /\ snap' = [products |-> products, orders |-> orders]

\* COMMIT fails when no transaction is active.
CommitFails == ~txnOpen

CommitOk ==
    /\ txnOpen' = FALSE
    /\ snap' = NoSnap

\* ROLLBACK restores the tables as they were at BEGIN; it fails when no
\* transaction is active.
RollbackFails == ~txnOpen

RollbackTables(ps, os, sn) == [products |-> sn.products, orders |-> sn.orders]

RollbackOk ==
    /\ products' = RollbackTables(products, orders, snap).products
    /\ orders' = RollbackTables(products, orders, snap).orders
    /\ txnOpen' = FALSE
    /\ snap' = NoSnap

\* The tables as committed: what a ROLLBACK now would leave.
CommittedProducts == IF txnOpen THEN snap.products ELSE products
CommittedOrders == IF txnOpen THEN snap.orders ELSE orders

\* The price, in hundredths, of the products the model creates.
InitPrice == 10

\* The users there are at the start: an active, a suspended and an inactive one.
InitUsers ==
    <<[status |-> "active", email |-> "a@x.io"],
      [status |-> "suspended", email |-> "s@x.io"],
      [status |-> "inactive", email |-> "i@x.io"]>>

(***************************************************************************)
(* Requests.                                                               *)
(***************************************************************************)
NoPatch == [fields |-> {}, stockQuantity |-> 0, status |-> NULL, price |-> 0, sku |-> NULL]

IdleProc ==
    [pc |-> "idle", op |-> "none", rid |-> 0,
     uid |-> 0, id |-> 0, qty |-> 0, st |-> NULL, note |-> NULL, patch |-> NoPatch,
     began |-> FALSE, ord |-> NoRow, prod |-> NoRow, newId |-> 0,
     sku |-> NULL, quantity |-> NoRow, err |-> NULL, res |-> NULL, pre |-> NoRow]

Active(p) == proc[p].pc \notin {"idle", "done", "failed"}

\* A step of a request moves that request and leaves the manager alone.
Set(p, r) == proc' = [proc EXCEPT ![p] = r] /\ UNCHANGED mgr

Goto(p, label) == Set(p, [proc[p] EXCEPT !.pc = label])

\* The request throws msg to its caller.  What lingers in the slot is the
\* outcome and the arguments of the call; its other locals are gone.
Throw(p, msg) ==
    Set(p, [IdleProc EXCEPT !.pc = "failed", !.err = msg, !.op = proc[p].op,
                            !.rid = proc[p].rid,
                            !.began = proc[p].began, !.pre = proc[p].pre,
                            !.id = proc[p].id, !.uid = proc[p].uid,
                            !.qty = proc[p].qty, !.st = proc[p].st,
                            !.ord = proc[p].ord, !.sku = proc[p].sku,
                            !.quantity = proc[p].quantity])

\* The request returns res to its caller.
Return(p, res) ==
    Set(p, [proc[p] EXCEPT !.pc = "done", !.res = res])

\* Into the catch block that rolls back: the pending error is kept.
Catch(p, label, msg) == Set(p, [proc[p] EXCEPT !.pc = label, !.err = msg])

\* A request enters the first free slot (slots have no identity of their
\* own), or, in mode "trip", the slot of its rank, so that the requests
\* served before it stay on record.  Requests are served either overlapping
\* (the modes of OverlappingModes) or one after the other (any other mode: a
\* request starts when none is in flight).  pre keeps the tables as they were
\* when the request started.
Alone(p) == \A o \in Procs \ {p} : ~Active(o)

OverlappingModes == {"conc", "sku", "user"}

Start(p, mode, r) ==
    /\ ~Active(p)
    /\ IF mode = "trip" THEN p = nreq + 1 ELSE \A q \in Procs : q < p => Active(q)
    /\ IF mode \in OverlappingModes THEN nreq < MaxConcReq ELSE nreq < MaxReq /\ Alone(p)
    /\ nreq' = nreq + 1
    /\ proc' = [proc EXCEPT ![p] =
                  [r EXCEPT !.rid = nreq + 1,
                            !.pre = [products |-> products, orders |-> orders]]]
    /\ UNCHANGED mgr

DbUnchanged == UNCHANGED <<users, products, orders, txnOpen, snap>>

(***************************************************************************)
(* businessValidators (utils/validation).                                  *)
(***************************************************************************)
userExistsAnyStatus(us, uid) == uid \in 1..Len(us)

userExists(us, uid) == uid \in 1..Len(us) /\ us[uid].status = "active"

productAvailableIgnoresStatus(ps, pid, q) ==
    IF pid \notin 1..Len(ps)
    THEN [available |-> FALSE, reason |-> "Product not found", product |-> NoRow]
    ELSE IF ps[pid].stockQuantity < q
    THEN [available |-> FALSE,
          reason |-> "Insufficient stock. Available: " \o ToString(ps[pid].stockQuantity)
                        \o ", Requested: " \o ToString(q),
          product |-> NoRow]
    ELSE [available |-> TRUE, reason |-> NULL,
          product |-> [id |-> pid, price |-> ps[pid].price,
                       stockQuantity |-> ps[pid].stockQuantity, status |-> ps[pid].status]]

productAvailableStockFirst(ps, pid, q) ==
    IF pid \notin 1..Len(ps)
    THEN [available |-> FALSE, reason |-> "Product not found", product |-> NoRow]
    ELSE IF ps[pid].stockQuantity < q
    THEN [available |-> FALSE,
          reason |-> "Insufficient stock. Available: " \o ToString(ps[pid].stockQuantity)
                        \o ", Requested: " \o ToString(q),
          product |-> NoRow]
    ELSE IF ps[pid].status # "available"
    THEN [available |-> FALSE, reason |-> "Product is " \o ps[pid].status, product |-> NoRow]
    ELSE [available |-> TRUE, reason |-> NULL,
          product |-> [id |-> pid, price |-> ps[pid].price,
                       stockQuantity |-> ps[pid].stockQuantity, status |-> ps[pid].status]]

\* SELECT id, name, price, stockQuantity, status FROM products WHERE id = ?
\* (rows of the model carry no name)
productAvailable(ps, pid, q) ==
    IF pid \notin 1..Len(ps)
    THEN [available |-> FALSE, reason |-> "Product not found", product |-> NoRow]
    ELSE IF ps[pid].status # "available"
    THEN [available |-> FALSE, reason |-> "Product is " \o ps[pid].status, product |-> NoRow]
    ELSE IF ps[pid].stockQuantity < q
    THEN [available |-> FALSE,
          reason |-> "Insufficient stock. Available: " \o ToString(ps[pid].stockQuantity)
                        \o ", Requested: " \o ToString(q),
          product |-> NoRow]
    ELSE [available |-> TRUE, reason |-> NULL,
          product |-> [id |-> pid, price |-> ps[pid].price,
                       stockQuantity |-> ps[pid].stockQuantity, status |-> ps[pid].status]]

(***************************************************************************)
(* OrderModel.create                                                       *)
(***************************************************************************)
Quantities(mode) == IF mode = "price" THEN 1..MaxPriceQty ELSE 1..MaxQty

\* A JavaScript value as the caller gives it: a number or a string, with its
\* text (String(value)).
Number(text) == [type |-> "number", text |-> text]
String(text) == [type |-> "string", text |-> text]

\* The quantities callers give.  Mode "qty": 0, a negative number, a number
\* with a fraction, positive integers, and strings that are no number or
\* only start with one.
RawQuantities(mode) ==
    IF mode = "qty"
    THEN {Number("0"), Number("-1"), Number("2.5"), Number("1"), Number("2"),
          String("abc"), String("2 units")}
    ELSE {Number(ToString(q)) : q \in Quantities(mode)}

\* !quantity: 0 and the empty string are falsy
Falsy(v) == (v.type = "number" /\ v.text = "0") \/ (v.type = "string" /\ v.text = "")

\* lines 20-27: what the validation of the input throws, NULL when nothing
createInputError(quantity) ==
    IF Falsy(quantity) THEN "User ID, Product ID, and quantity are required"
    ELSE IF parseInt(quantity.text).nan \/ parseInt(quantity.text).value <= 0
    THEN "Quantity must be a positive integer"
    ELSE NULL

\* lines 17-27 run before the first await: the input is validated and
\* numericQuantity = parseInt(quantity) is what the rest of create uses
CreateStart(p, mode) ==
    \E uid \in 1..(Len(users) + 1), pid \in 1..(Len(products) + 1),
       quantity \in RawQuantities(mode) :
        /\ Start(p, mode,
                 IF createInputError(quantity) # NULL
                 THEN [IdleProc EXCEPT !.pc = "failed", !.op = "create",
                                       !.err = createInputError(quantity),
                                       !.uid = uid, !.id = pid, !.quantity = quantity]
                 ELSE [IdleProc EXCEPT !.pc = "c_user", !.op = "create",
                                       !.uid = uid, !.id = pid, !.quantity = quantity,
                                       !.qty = parseInt(quantity.text).value])
        /\ DbUnchanged

CreateUserExists(p) ==
    /\ proc[p].pc = "c_user"
    /\ IF userExists(users, proc[p].uid)
       THEN Goto(p, "c_avail")
       ELSE Throw(p, "User not found or inactive")
    /\ DbUnchanged /\ UNCHANGED nreq

CreateProductAvailableReserving(p) ==
    /\ proc[p].pc = "c_avail"
    /\ LET r == productAvailable(products, proc[p].id, proc[p].qty)
       IN  IF r.available
           THEN /\ Set(p, [proc[p] EXCEPT !.pc = "c_begin", !.prod = r.product])
                /\ products' = [products EXCEPT ![proc[p].id].stockQuantity = @ - proc[p].qty]
           ELSE /\ Throw(p, r.reason)
                /\ UNCHANGED products
    /\ UNCHANGED <<users, orders, txnOpen, snap, nreq>>

CreateProductAvailable(p) ==
    /\ proc[p].pc = "c_avail"
    /\ LET r == productAvailable(products, proc[p].id, proc[p].qty)
       IN  IF r.available
           THEN Set(p, [proc[p] EXCEPT !.pc = "c_begin", !.prod = r.product])
           ELSE Throw(p, r.reason)
    /\ DbUnchanged /\ UNCHANGED nreq

\* line 43: outside the inner try, so a failed BEGIN is rethrown with no ROLLBACK
CreateBegin(p) ==
    /\ proc[p].pc = "c_begin"
    /\ IF BeginFails
       THEN /\ Throw(p, "cannot start a transaction within a transaction")
            /\ UNCHANGED <<txnOpen, snap>>
       ELSE /\ BeginOk
            /\ Set(p, [proc[p] EXCEPT !.pc = "c_insert", !.began = TRUE])
    /\ UNCHANGED <<users, products, orders, nreq>>

CreateInsert(p) ==
    /\ proc[p].pc = "c_insert"
    /\ LET unit_price == proc[p].prod.price
           total_price == TotalPrice(unit_price, proc[p].qty)
           r == InsertOrder(users, products, orders, proc[p].uid, proc[p].id,
                            proc[p].qty, unit_price, total_price, NULL, proc[p].rid)
       IN  /\ products' = r.products
           /\ orders' = r.orders
           /\ IF r.ok
              THEN Set(p, [proc[p] EXCEPT !.pc = "c_commit", !.newId = r.id])
              ELSE Catch(p, "c_rollback", "constraint failed")
    /\ UNCHANGED <<users, txnOpen, snap, nreq>>

CreateCommit(p) ==
    /\ proc[p].pc = "c_commit"
    /\ IF CommitFails
       THEN /\ Catch(p, "c_rollback", "cannot commit - no transaction is active")
            /\ UNCHANGED <<txnOpen, snap>>
       ELSE /\ CommitOk
            /\ Goto(p, "c_return")
    /\ UNCHANGED <<users, products, orders, nreq>>

\* line 77: findByIdWithDetails(result.id); null when the row is not there
CreateReturn(p) ==
    /\ proc[p].pc = "c_return"
    /\ Return(p, IF proc[p].newId \in 1..Len(orders) THEN "row" ELSE NULL)
    /\ DbUnchanged /\ UNCHANGED nreq

\* lines 79-82: catch, ROLLBACK, rethrow; a failing ROLLBACK throws its own error
CreateRollback(p) ==
    /\ proc[p].pc = "c_rollback"
    /\ IF RollbackFails
       THEN /\ Throw(p, "cannot rollback - no transaction is active")
            /\ UNCHANGED <<products, orders, txnOpen, snap>>
       ELSE /\ RollbackOk
            /\ Throw(p, proc[p].err)
    /\ UNCHANGED <<users, nreq>>

(***************************************************************************)
(* POST /orders (routes/orders.js): how the route reports an error thrown   *)
(* by OrderModel.create.                                                   *)
(***************************************************************************)
\* String.prototype.includes
includes(msg, word) ==
    \E i \in 1..(Len(msg) - Len(word) + 1) : SubSeq(msg, i, i + Len(word) - 1) = word

PostOrdersErrorInactiveFirst(msg) ==
    IF includes(msg, "inactive") \/ includes(msg, "stock") \/ includes(msg, "out_of_stock")
    THEN [status |-> 400, message |-> "Order validation failed"]
    ELSE IF includes(msg, "not found")
    THEN [status |-> 404, message |-> "Resource not found"]
    ELSE IF includes(msg, "validation") \/ includes(msg, "required")
    THEN [status |-> 400, message |-> "Validation error"]
    ELSE [status |-> 500, message |-> "Internal server error"]

PostOrdersError(msg) ==
    IF includes(msg, "not found")
    THEN [status |-> 404, message |-> "Resource not found"]
    ELSE IF includes(msg, "inactive") \/ includes(msg, "stock") \/ includes(msg, "out_of_stock")
    THEN [status |-> 400, message |-> "Order validation failed"]
    ELSE IF includes(msg, "validation") \/ includes(msg, "required")
    THEN [status |-> 400, message |-> "Validation error"]
    ELSE [status |-> 500, message |-> "Internal server error"]

(***************************************************************************)
(* OrderModel.findById / updateStatus / cancel                             *)
(***************************************************************************)
findById(rows, id) == IF id \in 1..Len(rows) THEN rows[id] ELSE NoRow

validTransitionsDeliveredReopens(cur) ==
    CASE cur = "pending" -> {"confirmed", "cancelled"}
      [] cur = "confirmed" -> {"shipped", "cancelled"}
      [] cur = "shipped" -> {"delivered", "cancelled"}
      [] cur = "delivered" -> {"pending"}
      [] cur = "cancelled" -> {}

validTransitions(cur) ==
    CASE cur = "pending" -> {"confirmed", "cancelled"}
      [] cur = "confirmed" -> {"shipped", "cancelled"}
      [] cur = "shipped" -> {"delivered", "cancelled"}
      [] cur = "delivered" -> {}
      [] cur = "cancelled" -> {}

UpdateStatusStart(p, mode) ==
    \E id \in 1..(Len(orders) + 1), st \in OrderStatuses, notes \in {NULL, "n"} :
        /\ Start(p, mode, [IdleProc EXCEPT !.pc = "u_find", !.op = "updateStatus",
                                     !.id = id, !.st = st, !.note = notes])
        /\ DbUnchanged

\* lines 320-337: existence and transition check on the row just read
UpdateStatusFind(p) ==
    /\ proc[p].pc = "u_find"
    /\ LET existingOrder == findById(orders, proc[p].id)
       IN  IF existingOrder = NoRow
           THEN Throw(p, "Order with ID " \o ToString(proc[p].id) \o " not found")
           ELSE IF proc[p].st \notin validTransitions(existingOrder.status)
           THEN Throw(p, "Cannot change status from " \o existingOrder.status
                            \o " to " \o proc[p].st)
           ELSE Set(p, [proc[p] EXCEPT !.pc = "u_update", !.ord = existingOrder])
    /\ DbUnchanged /\ UNCHANGED nreq

\* lines 339-346
UpdateStatusUpdate(p) ==
    /\ proc[p].pc = "u_update"
    /\ LET r == UpdateOrderStatus(products, orders, proc[p].id, proc[p].st, proc[p].note)
       IN  /\ products' = r.products
           /\ orders' = r.orders
           /\ IF r.changes = 0
              THEN Throw(p, "Failed to update order status")
              ELSE Goto(p, "u_return")
    /\ UNCHANGED <<users, txnOpen, snap, nreq>>

\* line 359
UpdateStatusReturn(p) ==
    /\ proc[p].pc = "u_return"
    /\ Return(p, "row")
    /\ DbUnchanged /\ UNCHANGED nreq

CancelStart(p, mode) ==
    \E id \in 1..(Len(orders) + 1) :
        /\ Start(p, mode, [IdleProc EXCEPT !.pc = "k_find", !.op = "cancel",
                                     !.id = id, !.note = "r"])
        /\ DbUnchanged

\* lines 373-384
CancelRejectsIgnoresCancelled(order) ==
    IF order = NoRow THEN "Order not found"
    ELSE IF order.status = "delivered" THEN "Cannot cancel delivered order"
    ELSE NULL

CancelRejectsIgnoresDelivered(order) ==
    IF order = NoRow THEN "Order not found"
    ELSE IF order.status = "cancelled" THEN "Order is already cancelled"
    ELSE NULL

CancelRejects(order) ==
    IF order = NoRow THEN "Order not found"
    ELSE IF order.status = "cancelled" THEN "Order is already cancelled"
    ELSE IF order.status = "delivered" THEN "Cannot cancel delivered order"
    ELSE NULL

CancelFind(p) ==
    /\ proc[p].pc = "k_find"
    /\ LET order == findById(orders, proc[p].id)
       IN  IF CancelRejects(order) # NULL
           THEN Throw(p, CancelRejects(order))
           ELSE Set(p, [proc[p] EXCEPT !.pc = "k_begin", !.ord = order])
    /\ DbUnchanged /\ UNCHANGED nreq

\* line 386: outside the inner try
CancelBegin(p) ==
    /\ proc[p].pc = "k_begin"
    /\ IF BeginFails
       THEN /\ Throw(p, "cannot start a transaction within a transaction")
            /\ UNCHANGED <<txnOpen, snap>>
       ELSE /\ BeginOk
            /\ Set(p, [proc[p] EXCEPT !.pc = "k_order", !.began = TRUE])
    /\ UNCHANGED <<users, products, orders, nreq>>

\* lines 390-393
CancelUpdateOrder(p) ==
    /\ proc[p].pc = "k_order"
    /\ LET r == UpdateOrderStatus(products, orders, proc[p].id, "cancelled", proc[p].note)
       IN  /\ products' = r.products
           /\ orders' = r.orders
           /\ IF r.ok THEN Goto(p, "k_stock") ELSE Catch(p, "k_rollback", "constraint failed")
    /\ UNCHANGED <<users, txnOpen, snap, nreq>>

\* lines 396-405: quantity and product id are those of the order read at line 373
CancelRestoreStock(p) ==
    /\ proc[p].pc = "k_stock"
    /\ LET r == RestoreStock(products, orders, proc[p].ord.product_id, proc[p].ord.quantity)
       IN  /\ products' = r.products
           /\ orders' = r.orders
           /\ IF r.ok THEN Goto(p, "k_commit") ELSE Catch(p, "k_rollback", "constraint failed")
    /\ UNCHANGED <<users, txnOpen, snap, nreq>>

\* line 407
CancelCommit(p) ==
    /\ proc[p].pc = "k_commit"
    /\ IF CommitFails
       THEN /\ Catch(p, "k_rollback", "cannot commit - no transaction is active")
            /\ UNCHANGED <<txnOpen, snap>>
       ELSE /\ CommitOk
            /\ Goto(p, "k_return")
    /\ UNCHANGED <<users, products, orders, nreq>>

\* line 419
CancelReturn(p) ==
    /\ proc[p].pc = "k_return"
    /\ Return(p, IF proc[p].id \in 1..Len(orders) THEN "row" ELSE NULL)
    /\ DbUnchanged /\ UNCHANGED nreq

\* lines 421-424
CancelRollback(p) ==
    /\ proc[p].pc = "k_rollback"
    /\ IF RollbackFails
       THEN /\ Throw(p, "cannot rollback - no transaction is active")
            /\ UNCHANGED <<products, orders, txnOpen, snap>>
       ELSE /\ RollbackOk
            /\ Throw(p, proc[p].err)
    /\ UNCHANGED <<users, nreq>>

(***************************************************************************)
(* ProductModel.updateStock                                                *)
(***************************************************************************)
UpdateStockStart(p, mode) ==
    \E id \in 1..(Len(products) + 1), q \in 1..MaxQty, operation \in {"add", "subtract", "set"} :
        /\ Start(p, mode, [IdleProc EXCEPT !.pc = "s_begin", !.op = "updateStock",
                                     !.id = id, !.qty = q, !.st = operation])
        /\ DbUnchanged

\* line 301: inside the try, so a failed BEGIN goes to the catch and its ROLLBACK
UpdateStockBegin(p) ==
    /\ proc[p].pc = "s_begin"
    /\ IF BeginFails
       THEN /\ Catch(p, "s_rollback", "cannot start a transaction within a transaction")
            /\ UNCHANGED <<txnOpen, snap>>
       ELSE /\ BeginOk
            /\ Set(p, [proc[p] EXCEPT !.pc = "s_find", !.began = TRUE])
    /\ UNCHANGED <<users, products, orders, nreq>>

\* lines 308-318
newQuantityAddSubtracts(product, quantityChange, operation) ==
    product.stockQuantity - quantityChange

newQuantity(product, quantityChange, operation) ==
    IF operation = "add" THEN product.stockQuantity + quantityChange
    ELSE product.stockQuantity - quantityChange

\* lines 308-318: what the computation of newQuantity throws, NULL when nothing
newQuantityError(product, quantityChange, operation) ==
    IF operation = "add" THEN NULL
    ELSE IF operation = "subtract"
    THEN IF newQuantity(product, quantityChange, operation) < 0
         THEN "Insufficient stock. Available: " \o ToString(product.stockQuantity)
                 \o ", Requested: " \o ToString(quantityChange)
         ELSE NULL
    ELSE "Invalid operation. Use \"add\" or \"subtract\""

\* line 320
newStatus(product, newQty) == IF newQty = 0 THEN "out_of_stock" ELSE "available"

\* lines 303-318
UpdateStockFind(p) ==
    /\ proc[p].pc = "s_find"
    /\ LET product == findById(products, proc[p].id)
       IN  IF product = NoRow
           THEN Catch(p, "s_rollback",
                      "Product with ID " \o ToString(proc[p].id) \o " not found")
           ELSE IF newQuantityError(product, proc[p].qty, proc[p].st) # NULL
           THEN Set(p, [proc[p] EXCEPT !.pc = "s_rollback",
                                       !.err = newQuantityError(product, proc[p].qty, proc[p].st),
                                       !.prod = product])
           ELSE Set(p, [proc[p] EXCEPT !.pc = "s_update", !.prod = product])
    /\ DbUnchanged /\ UNCHANGED nreq

\* UPDATE products SET stockQuantity = ?, status = ? WHERE id = ?
SetStock(ps, os, id, qty, st) ==
    IF id \notin 1..Len(ps) THEN StmtOk(ps, os, 0, 0)
    ELSE LET row == [ps[id] EXCEPT !.stockQuantity = qty, !.status = st]
         IN  IF ~ProductCheckOk(row) THEN StmtFail(ps, os)
             ELSE StmtOk([ps EXCEPT ![id] = row], os, 1, 0)

\* lines 322-329
UpdateStockUpdate(p) ==
    /\ proc[p].pc = "s_update"
    /\ LET nq == newQuantity(proc[p].prod, proc[p].qty, proc[p].st)
           r == SetStock(products, orders, proc[p].id, nq, newStatus(proc[p].prod, nq))
       IN  /\ products' = r.products
           /\ orders' = r.orders
           /\ IF ~r.ok THEN Catch(p, "s_rollback", "constraint failed")
              ELSE IF r.changes = 0 THEN Catch(p, "s_rollback", "Failed to update stock")
              ELSE Goto(p, "s_commit")
    /\ UNCHANGED <<users, txnOpen, snap, nreq>>

\* line 331
UpdateStockCommit(p) ==
    /\ proc[p].pc = "s_commit"
    /\ IF CommitFails
       THEN /\ Catch(p, "s_rollback", "cannot commit - no transaction is active")
            /\ UNCHANGED <<txnOpen, snap>>
       ELSE /\ CommitOk
            /\ Goto(p, "s_return")
    /\ UNCHANGED <<users, products, orders, nreq>>

\* line 352
UpdateStockReturn(p) ==
    /\ proc[p].pc = "s_return"
    /\ Return(p, IF proc[p].id \in 1..Len(products) THEN "row" ELSE NULL)
    /\ DbUnchanged /\ UNCHANGED nreq

\* lines 354-359
UpdateStockRollback(p) ==
    /\ proc[p].pc = "s_rollback"
    /\ IF RollbackFails
       THEN /\ Throw(p, "cannot rollback - no transaction is active")
            /\ UNCHANGED <<products, orders, txnOpen, snap>>
       ELSE /\ RollbackOk
            /\ Throw(p, proc[p].err)
    /\ UNCHANGED <<users, nreq>>

(***************************************************************************)
(* UserModel.create and POST /users.  The uniqueness pre-check, the UNIQUE  *)
(* index and the route are the source's; the body of UserModel.create is    *)
(* the create of the CRUD section: normalise, pre-check, insert, and a      *)
(* uniqueness failure of either kind is a conflict.                        *)
(***************************************************************************)
\* The emails callers give: one in use, the same in capitals with a blank,
\* two new ones, and a new one in capitals.
RawEmails == {"a@x.io", "A@X.io ", "b@x.io", "B@x.io", "c@x.io"}

\* customValidation.email: lowercase() and trim(), applied by validate
normalizeEmail(email) == trim(toLowerCase(email))

\* businessValidators.isEmailUnique: SELECT id FROM users WHERE email = ?
\* [AND id != ?]; excludeUserId 0 stands for none given
isEmailUnique(us, email, excludeUserId) ==
    ~\E i \in 1..Len(us) : us[i].email = email /\ (excludeUserId = 0 \/ i # excludeUserId)

\* users.email TEXT UNIQUE NOT NULL
UniqueEmailOkOff(us, email) == TRUE

UniqueEmailOk(us, email) == ~\E i \in 1..Len(us) : us[i].email = email

\* INSERT INTO users: status takes its DEFAULT 'active'
InsertUser(us, email) ==
    IF ~UniqueEmailOk(us, email) THEN [ok |-> FALSE, users |-> us, id |-> 0]
    ELSE [ok |-> TRUE, users |-> Append(us, [status |-> "active", email |-> email]),
          id |-> Len(us) + 1]

UserCreateStart(p, mode) ==
    \E email \in RawEmails :
        /\ Start(p, mode, [IdleProc EXCEPT !.pc = "e_unique", !.op = "createUser",
                                     !.note = normalizeEmail(email)])
        /\ DbUnchanged

UserCreateEmailUnique(p) ==
    /\ proc[p].pc = "e_unique"
    /\ IF isEmailUnique(users, proc[p].note, 0)
       THEN Goto(p, "e_insert")
       ELSE Throw(p, "Email " \o proc[p].note \o " is already registered")
    /\ DbUnchanged /\ UNCHANGED nreq

UserCreateInsert(p) ==
    /\ proc[p].pc = "e_insert"
    /\ LET r == InsertUser(users, proc[p].note)
       IN  /\ users' = r.users
           /\ IF r.ok
              THEN Set(p, [proc[p] EXCEPT !.pc = "e_return", !.newId = r.id])
              ELSE Throw(p, "Email is already registered")
    /\ UNCHANGED <<products, orders, txnOpen, snap, nreq>>

UserCreateReturn(p) ==
    /\ proc[p].pc = "e_return"
    /\ Return(p, IF proc[p].newId \in 1..Len(users) THEN "row" ELSE NULL)
    /\ DbUnchanged /\ UNCHANGED nreq

\* POST /users (routes/users.js lines 39-71): how the route reports an error
\* thrown by UserModel.create
PostUsersError(msg) ==
    IF includes(msg, "already registered")
    THEN [status |-> 409, message |-> "Email already exists"]
    ELSE IF includes(msg, "validation") \/ includes(msg, "required")
    THEN [status |-> 400, message |-> "Validation error"]
    ELSE [status |-> 500, message |-> "Internal server error"]

(***************************************************************************)
(* ProductModel.update / create / discontinue                              *)
(***************************************************************************)
\* The price, in hundredths, a product update sets.
OtherPrice == 25

Patches ==
    {[NoPatch EXCEPT !.fields = {"stockQuantity"}, !.stockQuantity = v] : v \in {-1, 0, MaxStock}}
    \cup {[NoPatch EXCEPT !.fields = {"status"}, !.status = s] : s \in ProductStatuses}
    \cup {[NoPatch EXCEPT !.fields = {"price"}, !.price = OtherPrice]}
    \cup {[NoPatch EXCEPT !.fields = {"stockQuantity", "status"},
                          !.stockQuantity = 0, !.status = "out_of_stock"]}

\* The sku values callers give: none, lower case, upper case with a space
\* after it, another one, and blanks only.
RawSkus == {NULL, "ab", "AB ", "cd", " "}

Skus(mode) == IF mode = "sku" THEN RawSkus ELSE {NULL}

\* The stock values callers give to create: one the CHECK refuses, none, some.
Stocks(mode) == IF mode = "sku" THEN {-1, MaxStock} ELSE {-1, 0, MaxStock}

PatchesOf(mode) ==
    IF mode = "sku" THEN {[NoPatch EXCEPT !.fields = {"sku"}, !.sku = k] : k \in RawSkus}
    ELSE Patches

\* JavaScript truthiness of a string or null
Truthy(v) == v # NULL /\ v # ""

\* create line 24, update line 249: sku ? sku.toUpperCase().trim() : null
sanitizeSku(sku) == IF Truthy(sku) THEN trim(toUpperCase(sku)) ELSE NULL

\* businessValidators.isSkuUnique: SELECT id FROM products WHERE sku = ?
\* [AND id != ?]; excludeProductId 0 stands for none given
isSkuUnique(ps, sku, excludeProductId) ==
    IF ~Truthy(sku) THEN TRUE
    ELSE ~\E i \in 1..Len(ps) :
             ps[i].sku = sku /\ (excludeProductId = 0 \/ i # excludeProductId)

\* products.sku TEXT UNIQUE: no other row holds the same non-null sku
UniqueSkuOkOff(ps, sku, id) == TRUE

UniqueSkuOk(ps, sku, id) ==
    sku = NULL \/ ~\E i \in 1..Len(ps) : i # id /\ ps[i].sku = sku

\* What SQLite reports for a products row that row id is to hold: the CHECK
\* constraints come before the UNIQUE index; NULL when the row is accepted.
ProductConstraintError(ps, row, id) ==
    IF ~ProductCheckOk(row) THEN "constraint failed"
    ELSE IF ~UniqueSkuOk(ps, row.sku, id)
    THEN "SQLITE_CONSTRAINT: UNIQUE constraint failed: products.sku"
    ELSE NULL

ProductUpdateStart(p, mode) ==
    \E id \in 1..(Len(products) + 1), patch \in PatchesOf(mode) :
        /\ Start(p, mode, [IdleProc EXCEPT !.pc = "p_find", !.op = "update",
                                     !.id = id, !.patch = patch])
        /\ DbUnchanged

\* lines 236-257: the row must exist; a sku given is sanitized, and checked
\* for uniqueness when it is not empty
ProductUpdateFind(p) ==
    /\ proc[p].pc = "p_find"
    /\ IF findById(products, proc[p].id) = NoRow
       THEN Throw(p, "Product not found")
       ELSE LET sku == sanitizeSku(proc[p].patch.sku)
            IN  IF "sku" \in proc[p].patch.fields /\ Truthy(sku)
                THEN Set(p, [proc[p] EXCEPT !.pc = "p_sku", !.sku = sku])
                ELSE Set(p, [proc[p] EXCEPT !.pc = "p_update", !.sku = sku])
    /\ DbUnchanged /\ UNCHANGED nreq

\* lines 252-255
ProductUpdateSkuUnique(p) ==
    /\ proc[p].pc = "p_sku"
    /\ IF isSkuUnique(products, proc[p].sku, proc[p].id)
       THEN Goto(p, "p_update")
       ELSE Throw(p, "SKU " \o proc[p].sku \o " is already in use")
    /\ DbUnchanged /\ UNCHANGED nreq

\* lines 259-271: UPDATE products SET <the fields present> WHERE id = ?
ApplyPatch(row, patch) ==
    [row EXCEPT
       !.stockQuantity = IF "stockQuantity" \in patch.fields THEN patch.stockQuantity ELSE @,
       !.status = IF "status" \in patch.fields THEN patch.status ELSE @,
       !.price = IF "price" \in patch.fields THEN patch.price ELSE @,
       !.sku = IF "sku" \in patch.fields THEN patch.sku ELSE @]

UpdateProduct(ps, os, id, patch) ==
    IF id \notin 1..Len(ps) THEN StmtOk(ps, os, 0, 0)
    ELSE LET row == ApplyPatch(ps[id], patch)
         IN  IF ProductConstraintError(ps, row, id) # NULL THEN StmtFail(ps, os)
             ELSE StmtOk([ps EXCEPT ![id] = row], os, 1, 0)

\* lines 268-275; the values bound are the sanitized ones
ProductUpdateUpdate(p) ==
    /\ proc[p].pc = "p_update"
    /\ LET sanitizedData == [proc[p].patch EXCEPT !.sku = proc[p].sku]
           r == UpdateProduct(products, orders, proc[p].id, sanitizedData)
       IN  /\ products' = r.products
           /\ orders' = r.orders
           /\ IF ~r.ok
              THEN Throw(p, ProductConstraintError(products,
                                ApplyPatch(products[proc[p].id], sanitizedData), proc[p].id))
              ELSE IF r.changes = 0 THEN Throw(p, "Failed to update product")
              ELSE Goto(p, "p_return")
    /\ UNCHANGED <<users, txnOpen, snap, nreq>>

\* line 287
ProductUpdateReturn(p) ==
    /\ proc[p].pc = "p_return"
    /\ Return(p, IF proc[p].id \in 1..Len(products) THEN "row" ELSE NULL)
    /\ DbUnchanged /\ UNCHANGED nreq

\* ProductModel.create, lines 35-46: INSERT INTO products; status takes its
\* DEFAULT 'available'
InsertProduct(ps, os, price, stockQuantity, sku) ==
    LET row == [price |-> price, stockQuantity |-> stockQuantity, status |-> "available",
                sku |-> sku]
    IN  IF ProductConstraintError(ps, row, Len(ps) + 1) # NULL THEN StmtFail(ps, os)
        ELSE StmtOk(Append(ps, row), os, 1, Len(ps) + 1)

\* lines 61-77: the catch block of create rewords a UNIQUE failure
CreateProductCatch(msg) ==
    IF includes(msg, "UNIQUE constraint failed") THEN "Product SKU is already in use"
    ELSE msg

\* lines 15-33: the sku is sanitized; the uniqueness check runs when it is not empty
ProductCreateStart(p, mode) ==
    \E stockQuantity \in Stocks(mode), sku \in Skus(mode) :
        /\ Len(products) < MaxProducts
        /\ Start(p, mode, [IdleProc EXCEPT
                              !.pc = IF Truthy(sanitizeSku(sku)) THEN "n_sku" ELSE "n_insert",
                              !.op = "createProduct",
                              !.qty = stockQuantity, !.sku = sanitizeSku(sku)])
        /\ DbUnchanged

\* lines 28-33
ProductCreateSkuUnique(p) ==
    /\ proc[p].pc = "n_sku"
    /\ IF isSkuUnique(products, proc[p].sku, 0)
       THEN Goto(p, "n_insert")
       ELSE Throw(p, CreateProductCatch("SKU " \o proc[p].sku \o " is already in use"))
    /\ DbUnchanged /\ UNCHANGED nreq

ProductCreateInsert(p) ==
    /\ proc[p].pc = "n_insert"
    /\ LET r == InsertProduct(products, orders, InitPrice, proc[p].qty, proc[p].sku)
           row == [price |-> InitPrice, stockQuantity |-> proc[p].qty,
                   status |-> "available", sku |-> proc[p].sku]
       IN  /\ products' = r.products
           /\ orders' = r.orders
           /\ IF r.ok
              THEN Set(p, [proc[p] EXCEPT !.pc = "n_return", !.newId = r.id])
              ELSE Throw(p, CreateProductCatch(
                               ProductConstraintError(products, row, Len(products) + 1)))
    /\ UNCHANGED <<users, txnOpen, snap, nreq>>

\* line 59
ProductCreateReturn(p) ==
    /\ proc[p].pc = "n_return"
    /\ Return(p, IF proc[p].newId \in 1..Len(products) THEN "row" ELSE NULL)
    /\ DbUnchanged /\ UNCHANGED nreq

\* POST /products (routes/products.js lines 40-71): how the route reports an
\* error thrown by ProductModel.create
PostProductsError(msg) ==
    IF includes(msg, "SKU") /\ includes(msg, "already in use")
    THEN [status |-> 409, message |-> "SKU conflict"]
    ELSE IF includes(msg, "validation") \/ includes(msg, "required")
    THEN [status |-> 400, message |-> "Validation error"]
    ELSE [status |-> 500, message |-> "Internal server error"]

\* ProductModel.discontinue, lines 422-429
DiscontinueStart(p, mode) ==
    \E id \in 1..(Len(products) + 1) :
        /\ Start(p, mode, [IdleProc EXCEPT !.pc = "d_update", !.op = "discontinue", !.id = id])
        /\ DbUnchanged

DiscontinueUpdate(p) ==
    /\ proc[p].pc = "d_update"
    /\ LET patch == [NoPatch EXCEPT !.fields = {"status"}, !.status = "discontinued"]
           r == UpdateProduct(products, orders, proc[p].id, patch)
       IN  /\ products' = r.products
           /\ orders' = r.orders
           /\ IF r.changes = 0 THEN Throw(p, "Product not found")
              ELSE Return(p, "success")
    /\ UNCHANGED <<users, txnOpen, snap, nreq>>

(***************************************************************************)
(* DatabaseManager (src/db.js): constructor, connect, configurePragmas,    *)
(* the 'error' handler and close.  Beside the fields of the object, mgr     *)
(* keeps where the connect() call stands (pc), the close callbacks still    *)
(* due (closing) and a record of what happened: connect() calls made,       *)
(* Database objects opened (attempts, callAttempts for the call in          *)
(* progress), whether an open ever succeeded, how the last call ended and   *)
(* the last event.                                                         *)
(***************************************************************************)
maxRetries == 3

\* lines 6-11
NewManager ==
    [db |-> NULL, isConnected |-> FALSE, connectionRetries |-> 0,
     pc |-> "idle", closing |-> 0,
     calls |-> 0, attempts |-> 0, callAttempts |-> 0, closes |-> 0,
     succeeded |-> FALSE, outcome |-> "none", ev |-> "new"]

\* The manager once app.js has connected at the first attempt.
ConnectedManager ==
    [NewManager EXCEPT !.db = "Database", !.isConnected = TRUE,
                       !.calls = 1, !.attempts = 1, !.callAttempts = 1,
                       !.succeeded = TRUE, !.outcome = "resolved", !.ev = "pragmas"]

TablesUnchanged == UNCHANGED <<users, products, orders, txnOpen, snap, proc, nreq>>

\* line 26
CanRetryOnceMore(m) == m.connectionRetries <= maxRetries

CanRetry(m) == m.connectionRetries < maxRetries

\* lines 13-22: connect() is called; it opens a Database object at once.  The
\* callers of connect await it, so a call starts when none is in progress.
Connect ==
    /\ mgr.pc = "idle"
    /\ mgr.calls < MaxConnectCalls
    /\ mgr' = [mgr EXCEPT !.db = "Database", !.pc = "opening",
                          !.calls = @ + 1, !.attempts = @ + 1, !.callAttempts = 1,
                          !.outcome = "pending", !.ev = "connect"]
    /\ TablesUnchanged

\* lines 22-44: the callback of new sqlite3.Database, with or without an error
OpenCallback ==
    /\ mgr.pc = "opening"
    /\ \E err \in BOOLEAN :
         mgr' = IF err
                THEN IF CanRetry(mgr)
                     THEN [mgr EXCEPT !.connectionRetries = @ + 1, !.pc = "timer",
                                      !.ev = "openFailed"]
                     ELSE [mgr EXCEPT !.pc = "idle", !.outcome = "rejected",
                                      !.ev = "openFailed"]
                ELSE [mgr EXCEPT !.isConnected = TRUE, !.pc = "pragmas",
                                 !.succeeded = TRUE, !.ev = "opened"]
    /\ TablesUnchanged

\* line 29: the timer fires and calls connect() again, whose outcome is the
\* outcome of the call that set the timer
RetryTimer ==
    /\ mgr.pc = "timer"
    /\ mgr' = [mgr EXCEPT !.db = "Database", !.pc = "opening",
                          !.attempts = @ + 1, !.callAttempts = @ + 1, !.ev = "timer"]
    /\ TablesUnchanged

\* lines 41-43, 53-79: a failing PRAGMA is a warning; the promise resolves
ConfigurePragmas ==
    /\ mgr.pc = "pragmas"
    /\ mgr' = [mgr EXCEPT !.pc = "idle", !.outcome = "resolved", !.ev = "pragmas"]
    /\ TablesUnchanged

\* lines 46-49: the 'error' event of the Database object
ErrorEvent ==
    /\ mgr.db # NULL
    /\ mgr' = [mgr EXCEPT !.isConnected = FALSE, !.ev = "error"]
    /\ TablesUnchanged

\* lines 181-196: close() is called; without a Database object it resolves at
\* once, with one the callback of db.close is due
Close ==
    /\ mgr.closes < MaxCloses
    /\ mgr' = IF mgr.db # NULL
              THEN [mgr EXCEPT !.closes = @ + 1, !.closing = @ + 1, !.ev = "close"]
              ELSE [mgr EXCEPT !.closes = @ + 1, !.ev = "close"]
    /\ TablesUnchanged

\* lines 183-191: the callback of db.close, with or without an error
CloseCallback ==
    /\ mgr.closing > 0
    /\ mgr' = [mgr EXCEPT !.isConnected = FALSE, !.closing = @ - 1, !.ev = "closed"]
    /\ TablesUnchanged

(***************************************************************************)
(* Initial state: an active, a suspended and an inactive user, one          *)
(* available product with stock, and one pending order placed earlier by   *)
(* the active user.                                                        *)
(***************************************************************************)
Init ==
    /\ users = InitUsers
    /\ \E s \in 1..MaxStock :
         products = <<[price |-> InitPrice, stockQuantity |-> s, status |-> "available", sku |-> NULL]>>
    /\ orders = <<[user_id |-> 1, product_id |-> 1, quantity |-> 1,
                   unit_price |-> InitPrice, total_price |-> TotalPrice(InitPrice, 1),
                   status |-> "pending", notes |-> NULL, rid |-> 0]>>
    /\ txnOpen = FALSE
    /\ snap = NoSnap
    /\ proc = [p \in Procs |-> IdleProc]
    /\ nreq = 0
    /\ mgr = ConnectedManager

\* Initial states of the one-after-the-other service: any stock, the status
\* the stock rules give it, and the earlier order at any point of its life.
SeqInit ==
    /\ users = InitUsers
    /\ \E s \in 0..MaxStock :
         products = <<[price |-> InitPrice, stockQuantity |-> s,
                       status |-> IF s = 0 THEN "out_of_stock" ELSE "available",
                       sku |-> NULL]>>
    /\ \E st \in OrderStatuses :
         orders = <<[user_id |-> 1, product_id |-> 1, quantity |-> 1,
                     unit_price |-> InitPrice, total_price |-> TotalPrice(InitPrice, 1),
                     status |-> st, notes |-> NULL, rid |-> 0]>>
    /\ txnOpen = FALSE
    /\ snap = NoSnap
    /\ proc = [p \in Procs |-> IdleProc]
    /\ nreq = 0
    /\ mgr = ConnectedManager

Next ==
    \E p \in Procs :
        \/ CreateStart(p, "conc")
        \/ CreateUserExists(p)
        \/ CreateProductAvailable(p)
        \/ CreateBegin(p)
        \/ CreateInsert(p)
        \/ CreateCommit(p)
        \/ CreateReturn(p)
        \/ CreateRollback(p)
        \/ UpdateStatusStart(p, "conc")
        \/ UpdateStatusFind(p)
        \/ UpdateStatusUpdate(p)
        \/ UpdateStatusReturn(p)
        \/ CancelStart(p, "conc")
        \/ CancelFind(p)
        \/ CancelBegin(p)
        \/ CancelUpdateOrder(p)
        \/ CancelRestoreStock(p)
        \/ CancelCommit(p)
        \/ CancelReturn(p)
        \/ CancelRollback(p)
        \/ UpdateStockStart(p, "conc")
        \/ UpdateStockBegin(p)
        \/ UpdateStockFind(p)
        \/ UpdateStockUpdate(p)
        \/ UpdateStockCommit(p)
        \/ UpdateStockReturn(p)
        \/ UpdateStockRollback(p)
        \/ ProductUpdateStart(p, "conc")
        \/ ProductUpdateFind(p)
        \/ ProductUpdateUpdate(p)
        \/ ProductUpdateReturn(p)
        \/ ProductCreateStart(p, "conc")
        \/ ProductCreateInsert(p)
        \/ ProductCreateReturn(p)
        \/ DiscontinueStart(p, "conc")
        \/ DiscontinueUpdate(p)

Spec == Init /\ [][Next]_vars

\* Requests served one after the other.  CreateRollback and CancelRollback are
\* left out: with no request overlapping another, no statement of create or
\* cancel fails once its transaction is open (NoRollbackWhenAlone).
SeqNext ==
    \E p \in Procs :
        \/ CreateStart(p, "seq")
        \/ CreateUserExists(p)
        \/ CreateProductAvailable(p)
        \/ CreateBegin(p)
        \/ CreateInsert(p)
        \/ CreateCommit(p)
        \/ CreateReturn(p)
        \/ UpdateStatusStart(p, "seq")
        \/ UpdateStatusFind(p)
        \/ UpdateStatusUpdate(p)
        \/ UpdateStatusReturn(p)
        \/ CancelStart(p, "seq")
        \/ CancelFind(p)
        \/ CancelBegin(p)
        \/ CancelUpdateOrder(p)
        \/ CancelRestoreStock(p)
        \/ CancelCommit(p)
        \/ CancelReturn(p)
        \/ UpdateStockStart(p, "seq")
        \/ UpdateStockBegin(p)
        \/ UpdateStockFind(p)
        \/ UpdateStockUpdate(p)
        \/ UpdateStockCommit(p)
        \/ UpdateStockReturn(p)
        \/ UpdateStockRollback(p)
        \/ ProductUpdateStart(p, "seq")
        \/ ProductUpdateFind(p)
        \/ ProductUpdateUpdate(p)
        \/ ProductUpdateReturn(p)
        \/ ProductCreateStart(p, "seq")
        \/ ProductCreateInsert(p)
        \/ ProductCreateReturn(p)
        \/ DiscontinueStart(p, "seq")
        \/ DiscontinueUpdate(p)

SeqSpec == SeqInit /\ [][SeqNext]_vars

SeqNextAll ==
    SeqNext \/ \E p \in Procs : CreateRollback(p) \/ CancelRollback(p)

SeqSpecAll == SeqInit /\ [][SeqNextAll]_vars

NoRollbackWhenAlone == \A p \in Procs : proc[p].pc \notin {"c_rollback", "k_rollback"}

\* The price computation of create: one product of any price up to MaxCents
\* hundredths, orders of up to MaxPriceQty units, one request at a time.
PriceInit ==
    /\ users = InitUsers
    /\ \E c \in 1..MaxCents :
         products = <<[price |-> c, stockQuantity |-> MaxPriceQty, status |-> "available", sku |-> NULL]>>
    /\ orders = <<>>
    /\ txnOpen = FALSE
    /\ snap = NoSnap
    /\ proc = [p \in Procs |-> IdleProc]
    /\ nreq = 0
    /\ mgr = ConnectedManager

PriceNext ==
    \E p \in Procs :
        \/ CreateStart(p, "price")
        \/ CreateUserExists(p)
        \/ CreateProductAvailable(p)
        \/ CreateBegin(p)
        \/ CreateInsert(p)
        \/ CreateCommit(p)
        \/ CreateReturn(p)

PriceSpec == PriceInit /\ [][PriceNext]_vars

\* The validation of create's quantity: creates one after the other, with
\* quantities of every shape.
QtyNext ==
    \E p \in Procs :
        \/ CreateStart(p, "qty")
        \/ CreateUserExists(p)
        \/ CreateProductAvailable(p)
        \/ CreateBegin(p)
        \/ CreateInsert(p)
        \/ CreateCommit(p)
        \/ CreateReturn(p)

QtySpec == SeqInit /\ [][QtyNext]_vars

\* Order creates and cancels one after the other, each request staying on
\* record after it has finished.
TripNext ==
    \E p \in Procs :
        \/ CreateStart(p, "trip")
        \/ CreateUserExists(p)
        \/ CreateProductAvailable(p)
        \/ CreateBegin(p)
        \/ CreateInsert(p)
        \/ CreateCommit(p)
        \/ CreateReturn(p)
        \/ CancelStart(p, "trip")
        \/ CancelFind(p)
        \/ CancelBegin(p)
        \/ CancelUpdateOrder(p)
        \/ CancelRestoreStock(p)
        \/ CancelCommit(p)
        \/ CancelReturn(p)

TripSpec == SeqInit /\ [][TripNext]_vars

\* User creations, overlapping.
UserNext ==
    \E p \in Procs :
        \/ UserCreateStart(p, "user")
        \/ UserCreateEmailUnique(p)
        \/ UserCreateInsert(p)
        \/ UserCreateReturn(p)

UserSpec == Init /\ [][UserNext]_vars

\* Product creates and updates that carry a sku, overlapping: product 1 holds
\* the sku AB.
SkuInit ==
    /\ users = InitUsers
    /\ products = <<[price |-> InitPrice, stockQuantity |-> 1, status |-> "available",
                     sku |-> "AB"]>>
    /\ orders = <<>>
    /\ txnOpen = FALSE
    /\ snap = NoSnap
    /\ proc = [p \in Procs |-> IdleProc]
    /\ nreq = 0
    /\ mgr = ConnectedManager

SkuNext ==
    \E p \in Procs :
        \/ ProductCreateStart(p, "sku")
        \/ ProductCreateSkuUnique(p)
        \/ ProductCreateInsert(p)
        \/ ProductCreateReturn(p)
        \/ ProductUpdateStart(p, "sku")
        \/ ProductUpdateFind(p)
        \/ ProductUpdateSkuUnique(p)
        \/ ProductUpdateUpdate(p)
        \/ ProductUpdateReturn(p)

SkuSpec == SkuInit /\ [][SkuNext]_vars

\* Concurrent create requests only.
CreateNext ==
    \E p \in Procs :
        \/ CreateStart(p, "conc")
        \/ CreateUserExists(p)
        \/ CreateProductAvailable(p)
        \/ CreateBegin(p)
        \/ CreateInsert(p)
        \/ CreateCommit(p)
        \/ CreateReturn(p)
        \/ CreateRollback(p)

CreateSpec == Init /\ [][CreateNext]_vars

\* Order creations and cancellations only, overlapping.
OrderNext ==
    \E p \in Procs :
        \/ CreateStart(p, "conc")
        \/ CreateUserExists(p)
        \/ CreateProductAvailable(p)
        \/ CreateBegin(p)
        \/ CreateInsert(p)
        \/ CreateCommit(p)
        \/ CreateReturn(p)
        \/ CreateRollback(p)
        \/ CancelStart(p, "conc")
        \/ CancelFind(p)
        \/ CancelBegin(p)
        \/ CancelUpdateOrder(p)
        \/ CancelRestoreStock(p)
        \/ CancelCommit(p)
        \/ CancelReturn(p)

OrderSpec == Init /\ [][OrderNext]_vars

\* The life of the DatabaseManager from its construction: connect, the
\* callbacks and timers of connect, error events and close.
ConnInit ==
    /\ users = <<>>
    /\ products = <<>>
    /\ orders = <<>>
    /\ txnOpen = FALSE
    /\ snap = NoSnap
    /\ proc = [p \in Procs |-> IdleProc]
    /\ nreq = 0
    /\ mgr = NewManager

ConnNext ==
    \/ Connect
    \/ OpenCallback
    \/ RetryTimer
    \/ ConfigurePragmas
    \/ ErrorEvent
    \/ Close
    \/ CloseCallback

ConnSpec == ConnInit /\ [][ConnNext]_vars

(***************************************************************************)
(* Properties.                                                             *)
(***************************************************************************)
Finished(p) == proc[p].pc \in {"done", "failed"}

NonTerminal == {"pending", "confirmed", "shipped"}

\* The product a finished or running request is about.
ProductOf(p) ==
    IF proc[p].op = "cancel" THEN proc[p].pre.orders[proc[p].id].product_id ELSE proc[p].id

\* A step that is a ROLLBACK restoring the tables.
IsRollbackStep == txnOpen /\ ~txnOpen' /\ orders' = snap.orders /\ products' = snap.products

\* The transition table as the claim states it.
C1_Table(cur) ==
    CASE cur = "pending" -> {"confirmed", "cancelled"}
      [] cur = "confirmed" -> {"shipped", "cancelled"}
      [] cur = "shipped" -> {"delivered", "cancelled"}
      [] OTHER -> {}

\* C1: in every execution, interleaved or not, each change of an order's status
\* written by a request follows an edge of the table pending -> {confirmed,
\* cancelled}, confirmed -> {shipped, cancelled}, shipped -> {delivered,
\* cancelled}; delivered and cancelled orders never change status again.
C1_StatusFollowsTable ==
    [][~IsRollbackStep =>
         \A i \in 1..Len(orders) :
            (i <= Len(orders') /\ orders'[i].status # orders[i].status)
               => orders'[i].status \in C1_Table(orders[i].status)]_vars

\* C2: every product's stockQuantity is >= 0, in the tables as the connection
\* shows them and as committed, whatever requests ran and however they
\* interleaved.
C2_StockNonNegative ==
    /\ \A i \in 1..Len(products) : products[i].stockQuantity >= 0
    /\ \A i \in 1..Len(CommittedProducts) : CommittedProducts[i].stockQuantity >= 0

\* C2 witness: an order insert of a create was refused by the stock CHECK
\* (another create took the stock after the availability check).
C2_Witness ==
    \E p \in Procs :
        /\ proc[p].op = "create" /\ proc[p].pc = "failed" /\ proc[p].began
        /\ proc[p].err = "constraint failed"
        /\ \E i \in 1..Len(products) : products[i].stockQuantity = 0

\* Request p is an operation that sets or changes a product's stock.
C3_SetsStock(p) ==
    \/ proc[p].op \in {"create", "cancel", "updateStock"}
    \/ proc[p].op = "update" /\ "stockQuantity" \in proc[p].patch.fields

\* C3: after every committed operation that sets or changes a product's stock
\* (order create, cancel, stock adjust, product update with a stockQuantity),
\* the product's status is out_of_stock if and only if its stock is 0.
C3_OutOfStockIffZero ==
    \A p \in Procs :
        (proc[p].pc = "done" /\ C3_SetsStock(p))
           => (products[ProductOf(p)].status = "out_of_stock"
                 <=> products[ProductOf(p)].stockQuantity = 0)

\* C4: when create reports failure after its unit of work has begun, no order
\* row of that call exists afterwards.
C4_FailedCreateLeavesNoRow ==
    \A p \in Procs :
        (proc[p].pc = "failed" /\ proc[p].op = "create" /\ proc[p].began)
           => \A i \in 1..Len(orders) : orders[i].rid # proc[p].rid

\* The tables a create of request p must leave, from those it started on.
C5_After(p) ==
    LET pre == proc[p].pre
        k == proc[p].id
        q == proc[p].qty
    IN  [products |->
            [pre.products EXCEPT ![k] =
                [@ EXCEPT !.stockQuantity = pre.products[k].stockQuantity - q,
                          !.status = IF pre.products[k].stockQuantity - q = 0
                                     THEN "out_of_stock" ELSE "available"]],
         orders |->
            Append(pre.orders,
                   [user_id |-> proc[p].uid, product_id |-> k, quantity |-> q,
                    unit_price |-> pre.products[k].price,
                    total_price |-> TotalPrice(pre.products[k].price, q),
                    status |-> "pending", notes |-> NULL, rid |-> proc[p].rid])]

\* C5: a create served alone adds exactly one order row, pending, of the
\* requested quantity, and takes that quantity off the product's stock, the
\* product becoming out_of_stock when the stock reaches 0 and staying available
\* otherwise; at no moment of the call, in the tables shown or committed, is
\* there the row without the decrement or the decrement without the row; a
\* create that returns has done both.
C5_CreateEffect ==
    \A p \in Procs :
        proc[p].op = "create" =>
            LET pre == proc[p].pre
                now == [products |-> products, orders |-> orders]
                com == [products |-> CommittedProducts, orders |-> CommittedOrders]
            IN  /\ now = pre \/ now = C5_After(p)
                /\ com = pre \/ com = C5_After(p)
                /\ proc[p].pc = "done" => (now = C5_After(p) /\ com = C5_After(p))

\* C5 witness: a create has returned and took the whole stock.
C5_Witness ==
    \E p \in Procs :
        /\ proc[p].op = "create" /\ proc[p].pc = "done"
        /\ products[proc[p].id].stockQuantity = 0
        /\ products[proc[p].id].status = "out_of_stock"
        /\ Len(orders) = Len(proc[p].pre.orders) + 1

\* C6: cancel of an order that is already cancelled is rejected with 'Order is
\* already cancelled' and changes neither the order nor any product's stock:
\* a second cancel of an order does not restore the stock a second time.
C6_CancelOfCancelledRejected ==
    \A p \in Procs :
        (/\ proc[p].op = "cancel"
         /\ proc[p].id \in 1..Len(proc[p].pre.orders)
         /\ proc[p].pre.orders[proc[p].id].status = "cancelled")
           => /\ orders = proc[p].pre.orders
              /\ products = proc[p].pre.products
              /\ Finished(p) => (proc[p].pc = "failed"
                                 /\ proc[p].err = "Order is already cancelled")

\* C6 witness: the order was cancelled by a first cancel call (its notes are
\* that call's reason) and the second cancel call has been rejected.
C6_Witness ==
    \E p \in Procs :
        /\ proc[p].op = "cancel" /\ proc[p].pc = "failed" /\ proc[p].rid = 2
        /\ proc[p].err = "Order is already cancelled"
        /\ orders[proc[p].id].notes = "r"

\* C7: when a request has changed an order from a non-terminal status to
\* cancelled, by cancel or by updateStatus, the product's stock has grown by the
\* order's quantity.
C7_CancelledRestoresStock ==
    \A p \in Procs :
        (/\ proc[p].pc = "done"
         /\ proc[p].op \in {"cancel", "updateStatus"}
         /\ proc[p].pre.orders[proc[p].id].status \in NonTerminal
         /\ orders[proc[p].id].status = "cancelled")
           => LET o == proc[p].pre.orders[proc[p].id]
              IN  products[o.product_id].stockQuantity
                     = proc[p].pre.products[o.product_id].stockQuantity + o.quantity

\* The tables a cancel of request p must leave, from those it started on.
C8_After(p) ==
    LET pre == proc[p].pre
        o == pre.orders[proc[p].id]
        k == o.product_id
    IN  [products |->
            [pre.products EXCEPT ![k] =
                [@ EXCEPT !.stockQuantity = pre.products[k].stockQuantity + o.quantity,
                          !.status = IF pre.products[k].status = "out_of_stock"
                                        /\ pre.products[k].stockQuantity + o.quantity > 0
                                     THEN "available" ELSE pre.products[k].status]],
         orders |->
            [pre.orders EXCEPT ![proc[p].id] =
                [@ EXCEPT !.status = "cancelled", !.notes = proc[p].note]]]

\* C8: a cancel served alone that returns has set the order's status to
\* cancelled and its notes to the reason, added the order's quantity to the
\* product's stock, made the product available if it was out_of_stock and the
\* new stock is > 0, left any other product status as it was, and changed
\* nothing else.
C8_CancelEffect ==
    \A p \in Procs :
        (proc[p].op = "cancel" /\ proc[p].pc = "done")
           => /\ [products |-> products, orders |-> orders] = C8_After(p)
              /\ ~txnOpen

\* C8 witness: a cancel has returned and brought an out_of_stock product back
\* to available.
C8_Witness ==
    \E p \in Procs :
        /\ proc[p].op = "cancel" /\ proc[p].pc = "done"
        /\ proc[p].pre.products[ProductOf(p)].status = "out_of_stock"
        /\ products[ProductOf(p)].status = "available"
        /\ orders[proc[p].id].status = "cancelled"

\* Request p is a cancel of a missing, cancelled or delivered order.
C9_Refused(p) ==
    \/ proc[p].id \notin 1..Len(proc[p].pre.orders)
    \/ proc[p].pre.orders[proc[p].id].status \in {"cancelled", "delivered"}

\* C9: cancel of an order that is cancelled or delivered, or of an id with no
\* order, throws without ever opening a unit of work and leaves every order
\* row and every product row as it was.
C9_CancelRefusedBeforeUnitOfWork ==
    \A p \in Procs :
        (proc[p].op = "cancel" /\ C9_Refused(p))
           => /\ ~proc[p].began
              /\ ~txnOpen
              /\ orders = proc[p].pre.orders
              /\ products = proc[p].pre.products
              /\ proc[p].pc \in {"k_find", "failed"}
              /\ proc[p].pc = "failed" =>
                    proc[p].err \in {"Order not found", "Order is already cancelled",
                                     "Cannot cancel delivered order"}

\* C9 witness: a cancel of a delivered order has been refused.
C9_Witness ==
    \E p \in Procs :
        /\ proc[p].op = "cancel" /\ proc[p].pc = "failed"
        /\ proc[p].err = "Cannot cancel delivered order"
        /\ orders[proc[p].id].status = "delivered"

\* No request other than p has written: each is absent or a stock adjustment whose BEGIN failed.
C10_OthersWroteNothing(p) ==
    \A q \in Procs \ {p} :
        \/ proc[q].op = "none"
        \/ proc[q].op = "updateStock" /\ ~proc[q].began

\* C10: cancel is all-or-nothing: when a cancel has failed after opening its
\* unit of work, and the only other request is a stock adjustment that wrote
\* nothing (its BEGIN failed), the order and every product are as they were
\* before the cancel.
C10_FailedCancelChangesNothing ==
    \A p \in Procs :
        (/\ proc[p].op = "cancel" /\ proc[p].pc = "failed" /\ proc[p].began
         /\ nreq <= 2
         /\ C10_OthersWroteNothing(p))
           => /\ orders = proc[p].pre.orders
              /\ products = proc[p].pre.products

\* Sum of the quantities of the rows i..Len(os) of an orders table.
RECURSIVE SumQtyFrom(_, _)
SumQtyFrom(os, i) == IF i > Len(os) THEN 0 ELSE os[i].quantity + SumQtyFrom(os, i + 1)

\* C11: for any interleaving of concurrent create requests on one product, the
\* quantities of the orders committed after a request started sum to at most
\* the stock there was when it started, and stock plus ordered quantities is
\* conserved (no order row without its decrement, no decrement without its
\* row); a create that passed the availability check and whose insert would
\* take the stock below 0 fails inside its transaction and leaves no order row.
C11_NoOversell ==
    \A p \in Procs :
        proc[p].op = "create" =>
            LET pre == proc[p].pre
            IN  /\ SumQtyFrom(CommittedOrders, Len(pre.orders) + 1)
                      <= pre.products[1].stockQuantity
                /\ products[1].stockQuantity + SumQtyFrom(orders, 1)
                      = pre.products[1].stockQuantity + SumQtyFrom(pre.orders, 1)
                /\ CommittedProducts[1].stockQuantity + SumQtyFrom(CommittedOrders, 1)
                      = pre.products[1].stockQuantity + SumQtyFrom(pre.orders, 1)
                /\ (proc[p].pc = "failed" /\ proc[p].err = "constraint failed")
                      => /\ proc[p].began
                         /\ \A i \in 1..Len(orders) : orders[i].rid # proc[p].rid

\* C11 witness: of two creates that both passed the availability check, one
\* has committed and taken the last stock, the other has been refused inside
\* its transaction and rolled back.
C11_Witness ==
    \E p, q \in Procs :
        /\ proc[p].op = "create" /\ proc[p].pc = "failed"
        /\ proc[p].err = "constraint failed"
        /\ proc[q].op = "create" /\ proc[q].pc = "done"
        /\ products[1].stockQuantity = 0
        /\ ~txnOpen

\* C12: a request that reads a product's stock (create's availability check)
\* or an order's status (the read of updateStatus and of cancel) reads the
\* committed value, never a value another request's open transaction has
\* written and not yet committed.
C12_ReadsCommitted ==
    [][\A p \in Procs :
          /\ (proc[p].pc = "c_avail" /\ proc'[p].pc = "c_begin")
                => /\ proc[p].id \in 1..Len(CommittedProducts)
                   /\ proc'[p].prod.stockQuantity
                         = CommittedProducts[proc[p].id].stockQuantity
                   /\ proc'[p].prod.status = CommittedProducts[proc[p].id].status
          /\ (\/ proc[p].pc = "u_find" /\ proc'[p].pc = "u_update"
              \/ proc[p].pc = "k_find" /\ proc'[p].pc = "k_begin")
                => /\ proc[p].id \in 1..Len(CommittedOrders)
                   /\ proc'[p].ord.status = CommittedOrders[proc[p].id].status]_vars

\* C14: for every order, total_price is exactly unit_price times quantity as
\* decimal amounts: the stored total is the number that the exact product, in
\* hundredths, denotes.
C14_TotalIsExactProduct ==
    \A i \in 1..Len(orders) :
        orders[i].total_price
            = DivToDouble(orders[i].unit_price * orders[i].quantity, 100)

\* C13: an order's unit_price, total_price and quantity never change once the
\* row exists, whatever operation runs later (updateStatus, cancel, product
\* price update, stock adjust), and the unit_price of the row a create inserted
\* is the price in the snapshot its availability check returned.
C13_PricesFrozen ==
    /\ [][\A i \in 1..Len(orders) :
            (i <= Len(orders') /\ orders'[i].rid = orders[i].rid)
               => /\ orders'[i].unit_price = orders[i].unit_price
                  /\ orders'[i].total_price = orders[i].total_price
                  /\ orders'[i].quantity = orders[i].quantity]_vars
    /\ [](\A p \in Procs :
            (proc[p].op = "create" /\ proc[p].pc \in {"c_commit", "c_return", "done"})
               => \A i \in 1..Len(orders) :
                     orders[i].rid = proc[p].rid
                        => orders[i].unit_price = proc[p].prod.price)

\* C13 witness: a create has returned, the product's price has been changed
\* since its availability check, and the order still carries the old price.
C13_Witness ==
    \E p \in Procs :
        /\ proc[p].op = "create" /\ proc[p].pc = "done"
        /\ \E i \in 1..Len(orders) :
              /\ orders[i].rid = proc[p].rid
              /\ orders[i].unit_price = InitPrice
              /\ products[orders[i].product_id].price = OtherPrice

\* C15: a create naming no user, or a user whose status is inactive or
\* suspended, fails with 'User not found or inactive' having changed nothing
\* (no order row, no stock change, no transaction opened); a create gets past
\* this check only for a user whose status is active.
C15_CreateNeedsActiveUser ==
    \A p \in Procs :
        proc[p].op = "create" =>
            LET active == proc[p].uid \in 1..Len(users) /\ users[proc[p].uid].status = "active"
            IN  /\ (proc[p].pc = "failed" /\ proc[p].err = "User not found or inactive")
                      => /\ ~proc[p].began
                         /\ ~txnOpen
                         /\ orders = proc[p].pre.orders
                         /\ products = proc[p].pre.products
                /\ proc[p].pc \notin {"c_user", "failed"} => active
                /\ (proc[p].pc = "failed" /\ ~active)
                      => proc[p].err = "User not found or inactive"
                /\ (proc[p].pc = "c_user" /\ ~active)
                      => /\ orders = proc[p].pre.orders
                         /\ products = proc[p].pre.products

\* C15 witness: a create for an inactive user has been refused.
C15_Witness ==
    \E p \in Procs :
        /\ proc[p].op = "create" /\ proc[p].pc = "failed"
        /\ proc[p].err = "User not found or inactive"
        /\ users[proc[p].uid].status = "inactive"
        /\ products = proc[p].pre.products

\* C16: the availability check answers available exactly when the product
\* exists, its status is available and its stock is at least the requested
\* quantity, and then returns the id, price, stock and status it read;
\* otherwise it answers unavailable with the reason 'Product not found' for a
\* missing product, the actual status when the status is not available, and
\* both figures when the stock is short.  (Seen through create: the call goes
\* on with the snapshot, or throws the reason.)
C16_Expected(ps, pid, q) ==
    IF pid \notin 1..Len(ps) THEN "Product not found"
    ELSE IF ps[pid].status = "out_of_stock" THEN "Product is out_of_stock"
    ELSE IF ps[pid].status = "discontinued" THEN "Product is discontinued"
    ELSE IF ps[pid].stockQuantity < q
    THEN "Insufficient stock. Available: " \o ToString(ps[pid].stockQuantity)
            \o ", Requested: " \o ToString(q)
    ELSE NULL

C16_AvailabilityAnswer ==
    \A p \in Procs :
        (proc[p].op = "create" /\ proc[p].pc # "c_user"
         /\ proc[p].uid \in 1..Len(users) /\ users[proc[p].uid].status = "active")
           => LET ps == proc[p].pre.products
                  expected == C16_Expected(ps, proc[p].id, proc[p].qty)
              IN  IF proc[p].pc = "c_avail" THEN TRUE
                  ELSE IF proc[p].pc = "failed"
                  THEN proc[p].err = expected
                  ELSE /\ expected = NULL
                       /\ proc[p].prod = [id |-> proc[p].id,
                                          price |-> ps[proc[p].id].price,
                                          stockQuantity |-> ps[proc[p].id].stockQuantity,
                                          status |-> "available"]
                       /\ ps[proc[p].id].stockQuantity >= proc[p].qty

\* C16 witness: a create was refused because the stock was short, the reason
\* naming both figures.
C16_Witness ==
    \E p \in Procs :
        /\ proc[p].op = "create" /\ proc[p].pc = "failed"
        /\ proc[p].err = "Insufficient stock. Available: 1, Requested: 2"
        /\ products[proc[p].id].stockQuantity = 1

\* Request p is a create of one unit, for an active user, of a product whose
\* stock is 0 and whose status is out_of_stock.
C17_OrderOnSoldOut(p) ==
    /\ proc[p].op = "create" /\ proc[p].qty = 1
    /\ proc[p].uid \in 1..Len(users) /\ users[proc[p].uid].status = "active"
    /\ proc[p].id \in 1..Len(proc[p].pre.products)
    /\ proc[p].pre.products[proc[p].id].stockQuantity = 0
    /\ proc[p].pre.products[proc[p].id].status = "out_of_stock"

\* C17 as stated: once an order has taken the whole stock of a product (stock
\* 0, out_of_stock), a further order of one unit is rejected as a business-rule
\* failure whose reason is "insufficient stock", no order row is added and the
\* stock stays 0.
C17_RejectedAsInsufficientStock ==
    \A p \in Procs :
        (C17_OrderOnSoldOut(p) /\ Finished(p))
           => /\ proc[p].pc = "failed"
              /\ includes(proc[p].err, "nsufficient stock")
              /\ orders = proc[p].pre.orders
              /\ products = proc[p].pre.products

\* C17 amended: once an order has taken the whole stock of a product (stock 0,
\* out_of_stock), a further order of one unit is rejected as a business-rule
\* failure (400 'Order validation failed') whose reason names the product's
\* status, 'Product is out_of_stock'; no order row is added and the stock
\* stays 0.
C17_RejectedAsOutOfStock ==
    \A p \in Procs :
        C17_OrderOnSoldOut(p)
           => /\ proc[p].pc \in {"c_user", "c_avail", "failed"}
              /\ orders = proc[p].pre.orders
              /\ products = proc[p].pre.products
              /\ ~txnOpen
              /\ proc[p].pc = "failed"
                    => /\ proc[p].err = "Product is out_of_stock"
                       /\ PostOrdersError(proc[p].err)
                             = [status |-> 400, message |-> "Order validation failed"]

\* C17 witness: the first request was an order that took the whole stock, the
\* second an order of one unit of the same product, and it has been rejected.
C17_Witness ==
    \E p \in Procs :
        /\ C17_OrderOnSoldOut(p) /\ proc[p].pc = "failed" /\ proc[p].rid = 2
        /\ \E i \in 1..Len(orders) :
              /\ orders[i].rid = 1 /\ orders[i].product_id = proc[p].id
              /\ orders[i].quantity = MaxStock
        /\ products[proc[p].id].stockQuantity = 0

\* C18: the availability check is a pure read: the step that runs it, whatever
\* it answers, leaves every user, product and order row as it was and opens
\* no transaction.
C18_AvailabilityCheckReadsOnly ==
    [][\A p \in Procs :
          (proc[p].pc = "c_avail" /\ proc'[p].pc # "c_avail")
             => UNCHANGED <<users, products, orders, txnOpen, snap>>]_vars

\* C18 witness: the check has answered available for one create and
\* unavailable, on a discontinued product, for the next.
C18_Witness ==
    \E p \in Procs :
        /\ proc[p].op = "create" /\ proc[p].pc = "failed"
        /\ proc[p].err = "Product is discontinued"
        /\ orders = proc[p].pre.orders
        /\ products = proc[p].pre.products

\* A stock adjust of request p must be rejected: unknown product, a direction
\* other than add and subtract, or a subtract of more than the stock.
C19_Rejected(p) ==
    LET ps == proc[p].pre.products
        k == proc[p].id
    IN  \/ k \notin 1..Len(ps)
        \/ proc[p].st \notin {"add", "subtract"}
        \/ proc[p].st = "subtract" /\ ps[k].stockQuantity - proc[p].qty < 0

\* The stock an accepted stock adjust of request p must leave.
C19_NewStock(p) ==
    LET cur == proc[p].pre.products[proc[p].id].stockQuantity
    IN  IF proc[p].st = "add" THEN cur + proc[p].qty ELSE cur - proc[p].qty

\* C19: a stock adjust with direction subtract sets the stock to current -
\* delta when that is >= 0 and otherwise fails with 'Insufficient stock'
\* naming the available and the requested amount; with direction add it sets
\* the stock to current + delta; any other direction, or an unknown product
\* id, is rejected.  A rejected call leaves every product row (stock and
\* status) and every order row as it was and no transaction open.
C19_StockAdjust ==
    \A p \in Procs :
        (proc[p].op = "updateStock" /\ Finished(p))
           => LET ps == proc[p].pre.products
                  k == proc[p].id
              IN  /\ ~txnOpen
                  /\ orders = proc[p].pre.orders
                  /\ IF C19_Rejected(p)
                     THEN /\ proc[p].pc = "failed"
                          /\ products = ps
                          /\ (k \in 1..Len(ps) /\ proc[p].st = "subtract")
                                => proc[p].err
                                      = "Insufficient stock. Available: "
                                           \o ToString(ps[k].stockQuantity)
                                           \o ", Requested: " \o ToString(proc[p].qty)
                     ELSE /\ proc[p].pc = "done"
                          /\ products[k].stockQuantity = C19_NewStock(p)
                          /\ \A j \in 1..Len(products) : j # k => products[j] = ps[j]
                          /\ Len(products) = Len(ps)

\* C19 witness: a subtract of more than the stock has been rejected after an
\* add had raised the stock.
C19_Witness ==
    \E p \in Procs :
        /\ proc[p].op = "updateStock" /\ proc[p].pc = "failed" /\ proc[p].rid = 2
        /\ proc[p].err = "Insufficient stock. Available: 1, Requested: 2"
        /\ products[proc[p].id].stockQuantity = 1

\* The status a stock adjust must leave on a product whose status was prior
\* and whose stock becomes newQty.
C20_Expected(prior, newQty) ==
    IF newQty = 0 THEN "out_of_stock"
    ELSE IF prior = "out_of_stock" THEN "available"
    ELSE prior

\* C20: after a successful stock adjust the product is out_of_stock when the
\* new stock is 0, available when the new stock is positive and the product
\* was out_of_stock, and keeps its status otherwise: a discontinued product
\* is never made available by a stock adjust.
C20_StatusAfterStockAdjust ==
    \A p \in Procs :
        (proc[p].op = "updateStock" /\ proc[p].pc = "done")
           => products[proc[p].id].status
                 = C20_Expected(proc[p].pre.products[proc[p].id].status,
                                products[proc[p].id].stockQuantity)

\* Request p takes a step.
C21_Steps(p) == proc'[p] # proc[p]

\* C21: a stock adjust invoked while its caller has a unit of work open runs
\* inside it: the stock adjust neither commits nor rolls back a unit of work
\* it did not open, so the caller's other mutations stay pending with it.
C21_StockAdjustLeavesCallersUnitOfWork ==
    [][\A p \in Procs :
          (proc[p].op = "updateStock" /\ ~proc[p].began /\ C21_Steps(p) /\ txnOpen)
             => (txnOpen' /\ snap' = snap /\ orders' = orders)]_vars

\* An order with status pending or confirmed references product pid.
C22_HasOpenOrders(os, pid) ==
    \E i \in 1..Len(os) : os[i].product_id = pid /\ os[i].status \in {"pending", "confirmed"}

\* C22: discontinue of a product that a pending or confirmed order references
\* fails and leaves the product's status as it was.
C22_DiscontinueBlockedByOpenOrders ==
    \A p \in Procs :
        (/\ proc[p].op = "discontinue" /\ Finished(p)
         /\ proc[p].id \in 1..Len(proc[p].pre.products)
         /\ C22_HasOpenOrders(proc[p].pre.orders, proc[p].id))
           => /\ proc[p].pc = "failed"
              /\ products[proc[p].id].status = proc[p].pre.products[proc[p].id].status

\* C23: discontinued is terminal: no step of any operation (order create,
\* cancel, stock adjust, product update) takes a discontinued product to
\* another status.
C23_DiscontinuedIsTerminal ==
    [][\A k \in 1..Len(products) :
          (products[k].status = "discontinued" /\ k <= Len(products'))
             => products'[k].status = "discontinued"]_vars

\* The create of request p names an existing user and an existing product and
\* breaks a business rule: the user is inactive or suspended, the product is
\* out_of_stock or discontinued, or the stock is short of the quantity.
C24_BreaksBusinessRule(p) ==
    LET ps == proc[p].pre.products
    IN  /\ proc[p].uid \in 1..Len(users)
        /\ proc[p].id \in 1..Len(ps)
        /\ \/ users[proc[p].uid].status \in {"inactive", "suspended"}
           \/ ps[proc[p].id].status \in {"out_of_stock", "discontinued"}
           \/ ps[proc[p].id].stockQuantity < proc[p].qty

\* C24: an order creation rejected for an inactive or suspended user, an
\* out_of_stock or discontinued product or insufficient stock is answered
\* with the business-rule outcome (400 'Order validation failed'), never 404
\* and never 500.
C24_BusinessRuleKind ==
    \A p \in Procs :
        (proc[p].op = "create" /\ proc[p].pc = "failed" /\ C24_BreaksBusinessRule(p))
           => PostOrdersError(proc[p].err)
                 = [status |-> 400, message |-> "Order validation failed"]

\* The create of request p names a user id or a product id that does not exist.
C25_NamesMissingRow(p) ==
    \/ proc[p].uid \notin 1..Len(users)
    \/ proc[p].id \notin 1..Len(proc[p].pre.products)

\* C25: an order creation naming a user id or a product id that does not
\* exist is answered 404, adds no order row and changes no product row.
C25_MissingIdIsNotFound ==
    \A p \in Procs :
        (proc[p].op = "create" /\ Finished(p) /\ C25_NamesMissingRow(p))
           => /\ proc[p].pc = "failed"
              /\ PostOrdersError(proc[p].err).status = 404
              /\ orders = proc[p].pre.orders
              /\ products = proc[p].pre.products
              /\ ~txnOpen

\* C25 witness: a create by the active user for a product id that does not
\* exist has been refused.
C25_Witness ==
    \E p \in Procs :
        /\ proc[p].op = "create" /\ proc[p].pc = "failed"
        /\ proc[p].uid = 1 /\ proc[p].id = Len(products) + 1
        /\ proc[p].err = "Product not found"

\* The updateStatus of request p must be refused: no order has the id, or the
\* order's status does not list the requested one in the transition table.
C26_MustRefuse(p) ==
    LET os == proc[p].pre.orders
    IN  \/ proc[p].id \notin 1..Len(os)
        \/ proc[p].st \notin C1_Table(os[proc[p].id].status)

\* C26: updateStatus for an id with no order, or for a status the order's
\* current status does not list in the transition table, throws and leaves
\* every order row (status and notes) and every product row unchanged; for an
\* illegal transition the error names the current and the requested status.
C26_IllegalTransitionRefused ==
    \A p \in Procs :
        (proc[p].op = "updateStatus" /\ Finished(p) /\ C26_MustRefuse(p))
           => LET os == proc[p].pre.orders
              IN  /\ proc[p].pc = "failed"
                  /\ orders = os
                  /\ products = proc[p].pre.products
                  /\ proc[p].id \in 1..Len(os)
                        => proc[p].err = "Cannot change status from "
                                            \o os[proc[p].id].status
                                            \o " to " \o proc[p].st

\* C26 witness: delivered -> pending has been refused.
C26_Witness ==
    \E p \in Procs :
        /\ proc[p].op = "updateStatus" /\ proc[p].pc = "failed"
        /\ proc[p].err = "Cannot change status from delivered to pending"
        /\ orders[proc[p].id].status = "delivered"

\* The sku is held by a row of ps.
C28_InUse(ps, sku) == \E i \in 1..Len(ps) : ps[i].sku = sku

\* Request p is a product create, valid but for its sku, that runs its
\* uniqueness pre-check or its INSERT in this step while its sku is in use.
C28_CreateMeetsDuplicate(p) ==
    /\ proc[p].op = "createProduct"
    /\ proc[p].pc \in {"n_sku", "n_insert"}
    /\ proc'[p] # proc[p]
    /\ proc[p].qty >= 0
    /\ proc[p].sku # NULL
    /\ C28_InUse(products, proc[p].sku)

\* C28: no two products ever hold the same non-null sku, compared upper-cased
\* and trimmed, however product creates and updates interleave; and a create
\* whose sku is in use, met by the pre-check or by the UNIQUE constraint, is
\* answered 409 'SKU conflict' and adds no product row.
C28_SkuUnique ==
    /\ [](\A i, j \in 1..Len(products) :
             (i # j /\ products[i].sku # NULL /\ products[j].sku # NULL)
                => trim(toUpperCase(products[i].sku)) # trim(toUpperCase(products[j].sku)))
    /\ [][\A p \in Procs :
             C28_CreateMeetsDuplicate(p)
                => /\ proc'[p].pc = "failed"
                   /\ PostProductsError(proc'[p].err)
                         = [status |-> 409, message |-> "SKU conflict"]
                   /\ products' = products]_vars

\* C28 witness: a create that passed the pre-check has been stopped by the
\* UNIQUE constraint, the sku having been taken by an overlapping request.
C28_Witness ==
    \E p \in Procs :
        /\ proc[p].op = "createProduct" /\ proc[p].pc = "failed"
        /\ proc[p].err = "Product SKU is already in use"
        /\ C28_InUse(products, proc[p].sku)

\* Request p is a user creation that runs its uniqueness pre-check or its
\* INSERT in this step while its email is in use.
C27_CreateMeetsDuplicate(p) ==
    /\ proc[p].op = "createUser"
    /\ proc[p].pc \in {"e_unique", "e_insert"}
    /\ proc'[p] # proc[p]
    /\ \E i \in 1..Len(users) : users[i].email = proc[p].note

C29_IsPositiveInteger(v) ==
    /\ v.type = "number"
    /\ Len(v.text) > 0
    /\ \A i \in 1..Len(v.text) : IsDigit(CharAt(v.text, i))
    /\ CharAt(v.text, 1) # "0"

\* C29: create rejects every quantity that is not a positive integer (0,
\* negative, with a fraction, non-numeric) with 'Quantity must be a positive
\* integer' and without any mutation, and every order stored carries the
\* positive integer its caller supplied.
C29_QuantityValidated ==
    \A p \in Procs :
        (proc[p].op = "create" /\ Finished(p))
           => /\ ~C29_IsPositiveInteger(proc[p].quantity)
                    => /\ proc[p].pc = "failed"
                       /\ proc[p].err = "Quantity must be a positive integer"
                       /\ orders = proc[p].pre.orders
                       /\ products = proc[p].pre.products
              /\ \A i \in 1..Len(orders) :
                    orders[i].rid = proc[p].rid
                       => /\ C29_IsPositiveInteger(proc[p].quantity)
                          /\ ToString(orders[i].quantity) = proc[p].quantity.text

\* Request c is a create that succeeded and request k, the next request
\* served, is the cancel of the order it created, and has succeeded; no
\* request has been served since.
C30_CreateThenCancel(c, k) ==
    /\ proc[c].op = "create" /\ proc[c].pc = "done"
    /\ proc[k].op = "cancel" /\ proc[k].pc = "done"
    /\ proc[k].rid = proc[c].rid + 1
    /\ proc[k].rid = nreq
    /\ proc[k].id = proc[c].newId

\* C30: creating an order of quantity q for an available product with stock
\* >= q and cancelling it, nothing in between, leaves the product's
\* stockQuantity and status as they were before the create; if the create
\* made the product out_of_stock the cancel makes it available again.
C30_CreateCancelRoundTrip ==
    \A c, k \in Procs :
        C30_CreateThenCancel(c, k)
           => LET pid == proc[c].id
                  before == proc[c].pre.products[pid]
                  between == proc[k].pre.products[pid]
              IN  /\ before.status = "available" /\ before.stockQuantity >= proc[c].qty
                  /\ products[pid].stockQuantity = before.stockQuantity
                  /\ products[pid].status = before.status
                  /\ between.status = "out_of_stock" => products[pid].status = "available"

\* C30 witness: a create took the last unit, the product went out_of_stock,
\* and the cancel of that order has brought it back.
C30_Witness ==
    \E c, k \in Procs :
        /\ C30_CreateThenCancel(c, k)
        /\ proc[k].pre.products[proc[c].id].status = "out_of_stock"
        /\ products[proc[c].id].status = "available"
        /\ products[proc[c].id].stockQuantity = proc[c].qty

\* Requests p and q are two cancels of the same order, which was not in a
\* terminal status when either of them started.
C31_TwoCancelsOfOneOrder(p, q) ==
    /\ p # q
    /\ proc[p].op = "cancel" /\ proc[q].op = "cancel"
    /\ proc[p].id = proc[q].id
    /\ proc[p].id \in 1..Len(proc[p].pre.orders)
    /\ proc[p].pre.orders[proc[p].id].status \in NonTerminal
    /\ proc[q].pre.orders[proc[q].id].status \in NonTerminal

\* C31: of two cancels of the same non-terminal order whose steps interleave
\* at most one succeeds, and the product's stock is raised by the order's
\* quantity once.
C31_ConcurrentCancelsRestoreOnce ==
    \A p, q \in Procs :
        C31_TwoCancelsOfOneOrder(p, q)
           => LET o == proc[p].pre.orders[proc[p].id]
              IN  /\ ~(proc[p].pc = "done" /\ proc[q].pc = "done")
                  /\ products[o.product_id].stockQuantity
                        <= proc[p].pre.products[o.product_id].stockQuantity + o.quantity

\* C32: a request never commits or rolls back a unit of work another request
\* opened: a request whose beginTransaction did not succeed, because another
\* request's unit of work is open on the connection, closes no unit of work.
C32_ClosesOnlyOwnUnitOfWork ==
    [][\A p \in Procs :
          (proc'[p] # proc[p] /\ ~proc[p].began) => ~(txnOpen /\ ~txnOpen')]_vars

\* Request p has reported success of a mutation it made outside any unit of
\* work of its own, and what it wrote is in the tables.
C33_WroteAndReported(p, ps, os) ==
    /\ proc[p].pc = "done"
    /\ \/ /\ proc[p].op = "updateStatus"
          /\ proc[p].id \in 1..Len(os)
          /\ os[proc[p].id].status = proc[p].st
       \/ /\ proc[p].op = "discontinue"
          /\ proc[p].id \in 1..Len(ps)
          /\ ps[proc[p].id].status = "discontinued"
       \/ /\ proc[p].op = "update"
          /\ proc[p].id \in 1..Len(ps)
          /\ ps[proc[p].id] = ApplyPatch(ps[proc[p].id], proc[p].patch)
       \/ /\ proc[p].op = "createProduct"
          /\ proc[p].newId \in 1..Len(ps)

\* C33: a mutation a request made outside any unit of work of its own
\* (updateStatus, product create, product update, discontinue) and reported
\* as successful is not undone by the rollback of another request's unit of
\* work.
C33_ReportedWritesSurviveRollback ==
    [][\A p \in Procs :
          (IsRollbackStep /\ C33_WroteAndReported(p, products, orders))
             => C33_WroteAndReported(p, products', orders')]_vars

\* Request p's INSERT INTO orders is the step taken and it adds the row.
C34_InsertsRow(p) ==
    /\ proc[p].op = "create"
    /\ proc[p].pc = "c_insert"
    /\ proc'[p].pc = "c_commit"
    /\ Len(orders') = Len(orders) + 1

\* C34: an order row is inserted (and then committed) only for a product
\* that, at the moment of the insert, is available and holds at least the
\* ordered quantity, whatever ran between the availability check and the
\* insert.
C34_InsertOnlyForAvailableProduct ==
    [][\A p \in Procs :
          C34_InsertsRow(p)
             => /\ products[proc[p].id].status = "available"
                /\ products[proc[p].id].stockQuantity >= proc[p].qty]_vars

\* Quantity held by the orders of product pid that are not cancelled.
RECURSIVE C35_Reserved(_, _, _)
C35_Reserved(os, pid, i) ==
    IF i > Len(os) THEN 0
    ELSE (IF os[i].product_id = pid /\ os[i].status # "cancelled" THEN os[i].quantity ELSE 0)
            + C35_Reserved(os, pid, i + 1)

\* Stock on hand plus reserved quantity of product pid, in the tables ps, os.
C35_Total(ps, os, pid) == ps[pid].stockQuantity + C35_Reserved(os, pid, 1)

\* C35: when only order creations and cancellations run, in any interleaving,
\* the committed stock of a product plus the quantities of its committed
\* orders that are not cancelled never changes.
C35_StockConservation ==
    [][\A pid \in 1..Len(CommittedProducts) :
          C35_Total(CommittedProducts', CommittedOrders', pid)
             = C35_Total(CommittedProducts, CommittedOrders, pid)]_vars

\* The step taken is request p's UPDATE orders of updateStatus, and it hits
\* the row.
C36_UpdatesRow(p) ==
    /\ proc[p].pc = "u_update"
    /\ proc'[p].pc = "u_return"

C37_AtCommit == {"c_commit", "k_commit", "s_commit"}

C37_AtRollback == {"c_rollback", "k_rollback", "s_rollback"}

\* C37: a create, cancel or stock adjust whose BEGIN succeeded issues exactly
\* one of COMMIT and ROLLBACK, never a ROLLBACK after its COMMIT, and when it
\* has returned or thrown the unit of work it opened is no longer open.
C37_OneCloseForEachBegin ==
    [][\A p \in Procs :
          (proc'[p] # proc[p] /\ proc[p].began)
             => /\ ~(proc[p].pc \in C37_AtCommit /\ proc'[p].pc \in C37_AtRollback)
                /\ (proc'[p].pc \in {"done", "failed"} /\ txnOpen')
                      => \E q \in Procs \ {p} : proc'[q].began /\ Active(q)]_vars

\* The claim as stated: while no open has succeeded, the manager has opened
\* at most maxRetries + 1 Database objects in its life.
C38_AtMostFourAttemptsEver ==
    ~mgr.succeeded => mgr.attempts <= maxRetries + 1

\* What holds of the attempts in every state: the retries of a lifetime are
\* at most maxRetries, one call opens at most maxRetries + 1 Database
\* objects, each object opened is the first of a call or a retry, a call
\* resolves only after an open succeeded, and a finished call none of whose
\* opens ever succeeded has rejected.  isConnected is set only once an open
\* has succeeded and is off right after an error event or a close callback.
C38_ManagerInvariant ==
    /\ mgr.connectionRetries <= maxRetries
    /\ mgr.callAttempts <= maxRetries + 1
    /\ mgr.attempts <= mgr.calls + mgr.connectionRetries
    /\ mgr.calls = 1 => mgr.attempts <= maxRetries + 1
    /\ mgr.outcome = "resolved" => mgr.succeeded
    /\ (mgr.pc = "idle" /\ mgr.calls > 0 /\ ~mgr.succeeded) => mgr.outcome = "rejected"
    /\ mgr.isConnected => mgr.succeeded
    /\ mgr.ev \in {"error", "closed"} => ~mgr.isConnected

\* isConnected turns on only in the callback of a successful open and turns
\* off only in the error handler or the callback of close; the retry counter
\* never goes down.
C38_ManagerSteps ==
    /\ (~mgr.isConnected /\ mgr'.isConnected) => mgr'.ev = "opened"
    /\ (mgr.isConnected /\ ~mgr'.isConnected) => mgr'.ev \in {"error", "closed"}
    /\ mgr'.connectionRetries >= mgr.connectionRetries

\* C38: connect terminates by running out of retries: one call of connect
\* opens at most maxRetries + 1 = 4 Database objects and the retry counter,
\* never reset, allows at most maxRetries retries in the life of the manager,
\* so that a later call gets what is left of them (a single attempt once they
\* are spent); a call whose attempts all failed rejects.  isConnected is true
\* only after an attempt succeeded and is false again after a connection error
\* event or a close.
C38_ConnectBounded == []C38_ManagerInvariant /\ [][C38_ManagerSteps]_vars

\* Every open of the first call failed, and so did the one open of the second
\* call: five Database objects were opened, three of them retries.
C38_Witness ==
    /\ mgr.calls = 2 /\ mgr.pc = "idle" /\ mgr.outcome = "rejected"
    /\ ~mgr.succeeded
    /\ mgr.connectionRetries = maxRetries
    /\ mgr.callAttempts = 1
    /\ mgr.attempts = maxRetries + 2

====
